---- MODULE Spec2Model ----
(***************************************************************************)
(* Model of the legislative-redline amendment engine:                      *)
(*   backend/app/services/amendment_parser.py   (AmendmentParser,          *)
(*                                               AmendmentApplier)         *)
(*   backend/app/services/subsection_extractor.py (SubsectionExtractor)    *)
(* and of the requests that use it:                                        *)
(*   backend/app/api/v1/comparisons.py          (generate_comparisons)     *)
(*   backend/app/api/v1/citations.py            (fetch_statute_for_citation)*)
(*                                                                         *)
(* A text is a sequence of characters; a character is a one-character      *)
(* string, and a character outside ASCII is written by its code point      *)
(* ("U201C" is the left double quotation mark).  Positions are 0-based     *)
(* offsets as in Python: the character at offset i of s is s[i + 1].       *)
(***************************************************************************)
EXTENDS Integers, Sequences, FiniteSets, TLC

VARIABLES pc, text, amendment, subsection, normalized, applied, extraction, parsed, db, utcnow, requests, response

vars == <<pc, text, amendment, subsection, normalized, applied, extraction, parsed, db, utcnow, requests, response>>

\* Python's None; no text has a character "None", so None is no text
None == <<"None">>

(***************************************************************************)
(* Characters and Python's str methods                                     *)
(***************************************************************************)
LowerLetters == <<"a","b","c","d","e","f","g","h","i","j","k","l","m",
                  "n","o","p","q","r","s","t","u","v","w","x","y","z">>

UpperLetters == <<"A","B","C","D","E","F","G","H","I","J","K","L","M",
                  "N","O","P","Q","R","S","T","U","V","W","X","Y","Z">>

LetterIndex == DOMAIN LowerLetters

LowerSet == {LowerLetters[k] : k \in LetterIndex}

UpperSet == {UpperLetters[k] : k \in LetterIndex}

DigitSet == {"0","1","2","3","4","5","6","7","8","9"}

\* \s of the re module, and the characters str.strip() removes
SpaceSet == {" ", "\t", "\n", "\r", "\f"}

\* \w of the re module
WordSet == LowerSet \cup UpperSet \cup DigitSet \cup {"_"}

ToLowerTable == [c \in UpperSet |-> LowerLetters[CHOOSE k \in LetterIndex : UpperLetters[k] = c]]

ToUpperTable == [c \in LowerSet |-> UpperLetters[CHOOSE k \in LetterIndex : LowerLetters[k] = c]]

\* one character of str.lower()
LowerChar(c) == IF c \in UpperSet THEN ToLowerTable[c] ELSE c

UpperChar(c) == IF c \in LowerSet THEN ToUpperTable[c] ELSE c

\* str.lower()
lower(s) == [k \in DOMAIN s |-> LowerChar(s[k])]

\* s[a:b] for 0 <= a, b
Slice(s, a, b) == SubSeq(s, a + 1, IF b > Len(s) THEN Len(s) ELSE b)

\* s[a:]
SliceFrom(s, a) == SubSeq(s, a + 1, Len(s))

\* s.startswith(p, i): p occurs in s at offset i
OccursAt(s, p, i) ==
    /\ i + Len(p) <= Len(s)
    /\ \A k \in 1..Len(p) : s[i + k] = p[k]

\* the least and the greatest element of a non-empty set of integers
Min(S) == CHOOSE x \in S : \A y \in S : x <= y

Max(S) == CHOOSE x \in S : \A y \in S : y <= x

\* s.find(p, i): the least offset >= i where p occurs, or -1
FindFrom(s, p, i) ==
    LET hits == {j \in i..(Len(s) - Len(p)) : OccursAt(s, p, j)}
    IN  IF hits = {} THEN -1 ELSE Min(hits)

\* s.find(p)
find(s, p) == FindFrom(s, p, 0)

\* p in s
Contains(s, p) == \E j \in 0..(Len(s) - Len(p)) : OccursAt(s, p, j)

\* s.rfind(p)
rfind(s, p) ==
    LET hits == {j \in 0..(Len(s) - Len(p)) : OccursAt(s, p, j)}
    IN  IF hits = {} THEN -1 ELSE Max(hits)

\* s.startswith(p)
startswith(s, p) == OccursAt(s, p, 0)

\* s.endswith(p)
endswith(s, p) == Len(p) <= Len(s) /\ OccursAt(s, p, Len(s) - Len(p))

\* s.lstrip(): without its leading whitespace
lstrip(s) ==
    SliceFrom(s, Min({j \in 0..Len(s) : j = Len(s) \/ s[j + 1] \notin SpaceSet}))

\* s.rstrip(): without its trailing whitespace
rstrip(s) ==
    Slice(s, 0, Max({j \in 0..Len(s) : j = 0 \/ s[j] \notin SpaceSet}))

\* s.strip()
strip(s) == lstrip(rstrip(s))

\* s.replace(old, new, count) for a non-empty old; count = -1 replaces every
\* occurrence, left to right and without overlap
RECURSIVE ReplaceFrom(_, _, _, _, _)
ReplaceFrom(s, old, new, cnt, i) ==
    LET p == IF cnt = 0 THEN -1 ELSE FindFrom(s, old, i)
    IN  IF p = -1 THEN SliceFrom(s, i)
        ELSE Slice(s, i, p) \o new
             \o ReplaceFrom(s, old, new, IF cnt > 0 THEN cnt - 1 ELSE cnt, p + Len(old))

\* s.replace("", new, count): new goes before every character and at the end
RECURSIVE InterleaveFrom(_, _, _, _)
InterleaveFrom(s, new, cnt, i) ==
    IF cnt = 0 THEN SliceFrom(s, i)
    ELSE IF i >= Len(s) THEN new
    ELSE new \o <<s[i + 1]>>
         \o InterleaveFrom(s, new, IF cnt > 0 THEN cnt - 1 ELSE cnt, i + 1)

\* s.replace(old, new, count)
replace_n(s, old, new, cnt) ==
    IF Len(old) = 0 THEN InterleaveFrom(s, new, cnt, 0)
    ELSE ReplaceFrom(s, old, new, cnt, 0)

\* s.replace(old, new)
replace(s, old, new) == replace_n(s, old, new, -1)

\* the concatenation F[lo] \o ... \o F[hi] of texts or of lists
RECURSIVE ConcatRange(_, _, _)
ConcatRange(F, lo, hi) ==
    IF lo > hi THEN <<>>
    ELSE IF lo = hi THEN F[lo]
    ELSE LET mid == (lo + hi) \div 2
         IN  ConcatRange(F, lo, mid) \o ConcatRange(F, mid + 1, hi)

Concat(F) == ConcatRange(F, 1, Len(F))

(***************************************************************************)
(* Python's re module: a backtracking matcher                              *)
(*                                                                         *)
(* A pattern is a tree of records; t names the construct.  Matches lists   *)
(* the ways a pattern matches at an offset in the order in which the re    *)
(* module tries them (left branch first, a greedy repeat longest first, a  *)
(* lazy repeat shortest first); the match re reports is the first of the   *)
(* list.  ic is re.IGNORECASE, dotall is re.DOTALL.                        *)
(***************************************************************************)
\* a run of literal characters
Lit(c, ic) == [t |-> "lit", c |-> c, ic |-> ic]

\* [...]
In(set, ic) == [t |-> "set", s |-> set, neg |-> FALSE, ic |-> ic]

\* [^...]
NotIn(set, ic) == [t |-> "set", s |-> set, neg |-> TRUE, ic |-> ic]

\* .
Dot(dotall) == [t |-> "any", dotall |-> dotall]

\* r1 r2 ...
Cat(rs) == [t |-> "cat", a |-> rs]

\* r1 | r2 | ...
Alt(rs) == [t |-> "alt", a |-> rs]

\* r{min,max}, greedy; max = -1 is unbounded
Rep(r, min, max) == [t |-> "rep", r |-> r, min |-> min, max |-> max, lazy |-> FALSE]

\* r{min,max}?, lazy
RepLazy(r, min, max) == [t |-> "rep", r |-> r, min |-> min, max |-> max, lazy |-> TRUE]

Star(r) == Rep(r, 0, -1)

Plus(r) == Rep(r, 1, -1)

Opt(r) == Rep(r, 0, 1)

PlusLazy(r) == RepLazy(r, 1, -1)

\* (r), capturing group n
Group(n, r) == [t |-> "group", n |-> n, r |-> r]

\* (?=r)
Ahead(r) == [t |-> "ahead", r |-> r, neg |-> FALSE]

\* (?!r)
NotAhead(r) == [t |-> "ahead", r |-> r, neg |-> TRUE]

\* \Z
AtEnd == [t |-> "end"]

\* $ without re.MULTILINE: at the end, or before a newline that ends the text
AtDollar == [t |-> "dollar"]

\* the largest number of capturing groups of a pattern of the program
MaxGroups == 4

\* no group has taken part in the match
NoGroups == [n \in 1..MaxGroups |-> <<-1, -1>>]

NoMatch == [ok |-> FALSE, st |-> -1, e |-> -1, g |-> NoGroups]

\* one way to match: the offset e where the match ends and the groups g
Way(e, g) == [e |-> e, g |-> g]

CharEq(a, b, ic) == IF ic THEN LowerChar(a) = LowerChar(b) ELSE a = b

LitAt(r, s, i) ==
    /\ i + Len(r.c) <= Len(s)
    /\ \A k \in 1..Len(r.c) : CharEq(s[i + k], r.c[k], r.ic)

SetAt(r, s, i) ==
    /\ i < Len(s)
    /\ LET c == s[i + 1]
           member == \/ c \in r.s
                     \/ r.ic /\ (LowerChar(c) \in r.s \/ UpperChar(c) \in r.s)
       IN  member # r.neg

AnyAt(r, s, i) == i < Len(s) /\ (r.dotall \/ s[i + 1] # "\n")

\* a pattern that matches exactly one character
IsOneChar(r) == r.t \in {"set", "any"}

OneCharAt(r, s, i) == IF r.t = "set" THEN SetAt(r, s, i) ELSE AnyAt(r, s, i)

\* how many characters from offset i on match the one-character pattern r
RunLength(r, s, i) ==
    Max({k \in 0..(Len(s) - i) : \A j \in 0..(k - 1) : OneCharAt(r, s, i + j)})

\* the ways of a repetition of a one-character pattern that matches the
\* next run characters: the longest first, or the shortest when lazy
RunWays(r, i, g, run) ==
    LET top == IF r.max >= 0 /\ r.max < run THEN r.max ELSE run
        n == top - r.min + 1
    IN  IF n <= 0 THEN <<>>
        ELSE IF r.lazy THEN [k \in 1..n |-> Way(i + r.min + k - 1, g)]
        ELSE [k \in 1..n |-> Way(i + top - k + 1, g)]

\* the repetition that is left after one more round
Again(r) ==
    [r EXCEPT !.min = IF r.min > 0 THEN r.min - 1 ELSE 0,
              !.max = IF r.max > 0 THEN r.max - 1 ELSE r.max]

\* the ways of one round that consumed a character
Moved(once, i) == SelectSeq(once, LAMBDA w : w.e > i)

\* the ways of a repetition, more being the ways with one more round
RepWays(r, i, g, more) ==
    IF r.max = 0 THEN <<Way(i, g)>>
    ELSE IF r.min > 0 THEN more
    ELSE IF r.lazy THEN <<Way(i, g)>> \o more
    ELSE more \o <<Way(i, g)>>

\* the ways ws of the inside of group n, with the group's span recorded
GroupWays(ws, n, i) ==
    [k \in 1..Len(ws) |-> Way(ws[k].e, [ws[k].g EXCEPT ![n] = <<i, ws[k].e>>])]

RECURSIVE Matches(_, _, _, _)
RECURSIVE MatchesCat(_, _, _, _)
RECURSIVE MatchesAlt(_, _, _, _, _)

\* every way of ws, continued by the pattern r
Continue(ws, r, s) ==
    Concat([k \in 1..Len(ws) |-> Matches(r, s, ws[k].e, ws[k].g)])

\* the ways the patterns rs[k], rs[k+1], ... match one after the other,
\* each begun where a way of ws ends
MatchesCat(rs, k, s, ws) ==
    IF k > Len(rs) \/ Len(ws) = 0 THEN ws
    ELSE MatchesCat(rs, k + 1, s, Continue(ws, rs[k], s))

MatchesAlt(rs, k, s, i, g) ==
    IF k > Len(rs) THEN <<>>
    ELSE Matches(rs[k], s, i, g) \o MatchesAlt(rs, k + 1, s, i, g)

\* the ways the pattern r matches from offset i of s, given the groups g
Matches(r, s, i, g) ==
    CASE r.t = "lit" -> IF LitAt(r, s, i) THEN <<Way(i + Len(r.c), g)>> ELSE <<>>
      [] r.t = "set" -> IF SetAt(r, s, i) THEN <<Way(i + 1, g)>> ELSE <<>>
      [] r.t = "any" -> IF AnyAt(r, s, i) THEN <<Way(i + 1, g)>> ELSE <<>>
      [] r.t = "cat" -> MatchesCat(r.a, 1, s, <<Way(i, g)>>)
      [] r.t = "alt" -> MatchesAlt(r.a, 1, s, i, g)
      [] r.t = "rep" /\ IsOneChar(r.r) -> RunWays(r, i, g, RunLength(r.r, s, i))
      [] r.t = "rep" /\ ~IsOneChar(r.r) ->
           RepWays(r, i, g, Continue(Moved(Matches(r.r, s, i, g), i), Again(r), s))
      [] r.t = "group" -> GroupWays(Matches(r.r, s, i, g), r.n, i)
      [] r.t = "ahead" ->
           IF (Len(Matches(r.r, s, i, g)) > 0) # r.neg THEN <<Way(i, g)>> ELSE <<>>
      [] r.t = "end" -> IF i = Len(s) THEN <<Way(i, g)>> ELSE <<>>
      [] r.t = "dollar" ->
           IF i = Len(s) \/ (i = Len(s) - 1 /\ s[i + 1] = "\n")
           THEN <<Way(i, g)>> ELSE <<>>

\* pattern.match(s, i): the match that starts at offset i
FirstWay(ws, i) ==
    IF Len(ws) = 0 THEN NoMatch
    ELSE [ok |-> TRUE, st |-> i, e |-> ws[1].e, g |-> ws[1].g]

MatchAt(re, s, i) == FirstWay(Matches(re, s, i, NoGroups), i)

\* pattern.search(s, i): the leftmost match that starts at or after offset i
LeftMost(ways) ==
    LET starts == {j \in DOMAIN ways : Len(ways[j]) > 0}
    IN  IF starts = {} THEN NoMatch ELSE FirstWay(ways[Min(starts)], Min(starts))

SearchFrom(re, s, i) == LeftMost([j \in i..Len(s) |-> Matches(re, s, j, NoGroups)])

\* pattern.search(s)
search(re, s) == SearchFrom(re, s, 0)

\* pattern.finditer(s): the matches left to right, without overlap
RECURSIVE FindIterFrom(_, _, _)
FindIterNext(re, s, m) ==
    IF ~m.ok THEN <<>>
    ELSE <<m>> \o FindIterFrom(re, s, IF m.e > m.st THEN m.e ELSE m.e + 1)

FindIterFrom(re, s, i) == FindIterNext(re, s, SearchFrom(re, s, i))

finditer(re, s) == FindIterFrom(re, s, 0)

\* match.group(0)
group0(m, s) == Slice(s, m.st, m.e)

\* match.group(n); a group that took no part is None
group(m, s, n) == IF m.g[n][1] = -1 THEN None ELSE Slice(s, m.g[n][1], m.g[n][2])

\* re.compile(re.escape(p)): the characters of p, literally
Escaped(p, ic) == Lit(p, ic)

\* pattern.sub(new, s, count) for a pattern that matches no empty text and a
\* replacement without backslashes; count = 0 replaces every match
RECURSIVE SubFrom(_, _, _, _, _)
SubNext(re, s, new, left, i, m) ==
    IF ~m.ok THEN SliceFrom(s, i)
    ELSE Slice(s, i, m.st) \o new
         \o SubFrom(re, s, new, IF left > 0 THEN left - 1 ELSE left, m.e)

SubFrom(re, s, new, left, i) ==
    SubNext(re, s, new, left, i, IF left = 0 THEN NoMatch ELSE SearchFrom(re, s, i))

sub(re, new, s, cnt) == SubFrom(re, s, new, IF cnt = 0 THEN -1 ELSE cnt, 0)

(***************************************************************************)
(* AmendmentParser.normalize_quotes                                        *)
(***************************************************************************)
\* a table whose right single quote becomes a left single quote
QUOTE_NORMALIZATION_right_single_to_left ==
    << <<"U201C", "\"">>, <<"U201D", "\"">>, <<"U2018", "'">>, <<"U2019", "U2018">>,
       <<"U201A", "'">>, <<"U201B", "'">>, <<"U201E", "\"">>, <<"U201F", "\"">>,
       <<"U2032", "'">>, <<"U2033", "\"">> >>

\* the dict AmendmentParser.QUOTE_NORMALIZATION, in the order of its items
QUOTE_NORMALIZATION ==
    << <<"U201C", "\"">>, <<"U201D", "\"">>, <<"U2018", "'">>, <<"U2019", "'">>,
       <<"U201A", "'">>, <<"U201B", "'">>, <<"U201E", "\"">>, <<"U201F", "\"">>,
       <<"U2032", "'">>, <<"U2033", "\"">> >>

\* the loop of normalize_quotes over the items k, k+1, ...
RECURSIVE NormalizeFrom(_, _)
NormalizeFrom(t, k) ==
    IF k > Len(QUOTE_NORMALIZATION) THEN t
    ELSE NormalizeFrom(replace(t, <<QUOTE_NORMALIZATION[k][1]>>, <<QUOTE_NORMALIZATION[k][2]>>),
                       k + 1)

\* a normalize_quotes whose replace stops after the first occurrence
RECURSIVE NormalizeFirstFrom(_, _)
NormalizeFirstFrom(t, k) ==
    IF k > Len(QUOTE_NORMALIZATION) THEN t
    ELSE NormalizeFirstFrom(
             replace_n(t, <<QUOTE_NORMALIZATION[k][1]>>, <<QUOTE_NORMALIZATION[k][2]>>, 1),
             k + 1)

normalize_quotes_first_only(t) == NormalizeFirstFrom(t, 1)

\* AmendmentParser.normalize_quotes
normalize_quotes(t) == NormalizeFrom(t, 1)

(***************************************************************************)
(* ParsedAmendment                                                         *)
(***************************************************************************)
\* bool(x) of an optional text
Truthy(x) == x # None /\ Len(x) > 0

\* the members of AmendmentType
STRIKE_INSERT == "strike_insert"

INSERT_AFTER == "insert_after"

INSERT_BEFORE == "insert_before"

READ_AS_FOLLOWS == "read_as_follows"

ADD_AT_END == "add_at_end"

ADD_AT_BEGINNING == "add_at_beginning"

STRIKE == "strike"

REDESIGNATE == "redesignate"

UNKNOWN == "unknown"

AmendmentType ==
    {STRIKE_INSERT, INSERT_AFTER, INSERT_BEFORE, READ_AS_FOLLOWS, ADD_AT_END,
     ADD_AT_BEGINNING, STRIKE, REDESIGNATE, UNKNOWN}

\* ParsedAmendment(...); confidence is in hundredths
ParsedAmendment(type, strike, insert, marker, target, raw, conf) ==
    [amendment_type |-> type, text_to_strike |-> strike, text_to_insert |-> insert,
     position_marker |-> marker, target_section |-> target, raw_instruction |-> raw,
     confidence |-> conf]

\* ParsedAmendment.is_valid
is_valid(a) ==
    CASE a.amendment_type = STRIKE_INSERT ->
           Truthy(a.text_to_strike) /\ Truthy(a.text_to_insert)
      [] a.amendment_type = INSERT_AFTER ->
           Truthy(a.position_marker) /\ Truthy(a.text_to_insert)
      [] a.amendment_type = INSERT_BEFORE ->
           Truthy(a.position_marker) /\ Truthy(a.text_to_insert)
      [] a.amendment_type = READ_AS_FOLLOWS -> Truthy(a.text_to_insert)
      [] a.amendment_type = ADD_AT_END -> Truthy(a.text_to_insert)
      [] a.amendment_type = ADD_AT_BEGINNING -> Truthy(a.text_to_insert)
      [] a.amendment_type = STRIKE -> Truthy(a.text_to_strike)
      [] OTHER -> FALSE

(***************************************************************************)
(* AmendmentApplier                                                        *)
(***************************************************************************)
\* "[and all that follows through end]" and "[each place it appears]"
THROUGH_END_MARKER ==
    <<"[","a","n","d"," ","a","l","l"," ","t","h","a","t"," ","f","o","l","l","o","w","s"," ","t","h","r","o","u","g","h"," ","e","n","d","]">>

EACH_PLACE_MARKER ==
    <<"[","e","a","c","h"," ","p","l","a","c","e"," ","i","t"," ","a","p","p","e","a","r","s","]">>

\* " " + marker, what the applier strips from the strike text
SpaceThen(m) == <<" ">> \o m

SUBPARAGRAPH == <<"s","u","b","p","a","r","a","g","r","a","p","h">>

PARAGRAPH == <<"p","a","r","a","g","r","a","p","h">>

SUBSECTION == <<"s","u","b","s","e","c","t","i","o","n">>

\* the patterns of _find_structural_element for struct_id, by struct_type
SubsectionElementPattern(struct_id) ==
    Cat(<<Lit(<<"(">>, TRUE), Group(1, Lit(struct_id, TRUE)), Lit(<<")">>, TRUE),
      Plus(In(SpaceSet, TRUE)), Group(2, PlusLazy(Dot(TRUE))), Ahead(Alt(<<Cat(<<Lit(<<"\n">>,
      TRUE), Star(In(SpaceSet, TRUE)), Lit(<<"(">>, TRUE), In(LowerSet, TRUE), Lit(<<")">>,
      TRUE)>>), AtEnd>>))>>)

ParagraphElementPattern(struct_id) ==
    Cat(<<Lit(<<"(">>, FALSE), Group(1, Lit(struct_id, FALSE)), Lit(<<")">>, FALSE),
      Plus(In(SpaceSet, FALSE)), Group(2, PlusLazy(Dot(TRUE))), Ahead(Alt(<<Cat(<<Lit(<<"\n">>,
      FALSE), Star(In(SpaceSet, FALSE)), Lit(<<"(">>, FALSE), Plus(In(DigitSet, FALSE)),
      Lit(<<")">>, FALSE)>>), Cat(<<Lit(<<"\n">>, FALSE), Star(In(SpaceSet, FALSE)),
      Lit(<<"(">>, FALSE), In(LowerSet, FALSE), Lit(<<")">>, FALSE)>>), AtEnd>>))>>)

SubparagraphElementPattern(struct_id) ==
    Cat(<<Lit(<<"(">>, FALSE), Group(1, Lit(struct_id, FALSE)), Lit(<<")">>, FALSE),
      Plus(In(SpaceSet, FALSE)), Group(2, PlusLazy(Dot(TRUE))), Ahead(Alt(<<Cat(<<Lit(<<"\n">>,
      FALSE), Star(In(SpaceSet, FALSE)), Lit(<<"(">>, FALSE), In(UpperSet, FALSE), Lit(<<")">>,
      FALSE)>>), Cat(<<Lit(<<"\n">>, FALSE), Star(In(SpaceSet, FALSE)), Lit(<<"(">>, FALSE),
      Plus(In(DigitSet, FALSE)), Lit(<<")">>, FALSE)>>), Cat(<<Lit(<<"\n">>, FALSE),
      Star(In(SpaceSet, FALSE)), Lit(<<"(">>, FALSE), In(LowerSet, FALSE), Lit(<<")">>,
      FALSE)>>), AtEnd>>))>>)

\* the fallback simple_pattern
SimpleElementPattern(struct_id) ==
    Cat(<<Lit(<<"(">>, TRUE), Group(1, Lit(struct_id, TRUE)), Lit(<<")">>, TRUE),
      Star(In(SpaceSet, TRUE)), Group(2, Plus(NotIn({"\n"}, TRUE)))>>)

\* the pattern of a single structural reference
STRUCT_REF_PATTERN ==
    Cat(<<Group(1, Alt(<<Lit(<<"s","u","b","p","a","r","a","g","r","a","p","h">>, TRUE),
      Lit(<<"p","a","r","a","g","r","a","p","h">>, TRUE),
      Lit(<<"s","u","b","s","e","c","t","i","o","n">>, TRUE)>>)), Star(In(SpaceSet, TRUE)),
      Lit(<<"(">>, TRUE), Group(2, Plus(In(UpperSet \cup LowerSet \cup DigitSet, TRUE))),
      Lit(<<")">>, TRUE)>>)

\* the pattern of a reference to two subparagraphs
MULTI_REF_PATTERN ==
    Cat(<<Lit(<<"s","u","b","p","a","r","a","g","r","a","p","h">>, TRUE), Opt(Lit(<<"s">>,
      TRUE)), Star(In(SpaceSet, TRUE)), Lit(<<"(">>, TRUE), Group(1, In(UpperSet, TRUE)),
      Lit(<<")">>, TRUE), Plus(In(SpaceSet, TRUE)), Lit(<<"a","n","d">>, TRUE),
      Plus(In(SpaceSet, TRUE)), Lit(<<"(">>, TRUE), Group(2, In(UpperSet, TRUE)), Lit(<<")">>,
      TRUE)>>)

\* end_patterns of _apply_strike_through_end
end_patterns ==
    << Cat(<<Lit(<<".">>, FALSE), Star(In(SpaceSet, FALSE)), Lit(<<"\n">>, FALSE)>>),
       Cat(<<Lit(<<".">>, FALSE), Star(In(SpaceSet, FALSE)), AtDollar>>),
       Cat(<<Lit(<<".">>, FALSE), Star(In(SpaceSet, FALSE)), Lit(<<"(">>, FALSE), In(LowerSet, FALSE), Lit(<<")">>, FALSE)>>),
       Cat(<<Lit(<<".">>, FALSE), Star(In(SpaceSet, FALSE)), Lit(<<"(">>, FALSE), Plus(In(DigitSet, FALSE)), Lit(<<")">>, FALSE)>>) >>

\* AmendmentApplier._find_structural_element: <<start, end, content>> or None
_find_structural_element(t, struct_type, struct_id) ==
    IF struct_type \notin {SUBSECTION, PARAGRAPH, SUBPARAGRAPH} THEN None
    ELSE
    LET pattern == IF struct_type = SUBSECTION THEN SubsectionElementPattern(struct_id)
                   ELSE IF struct_type = PARAGRAPH THEN ParagraphElementPattern(struct_id)
                   ELSE SubparagraphElementPattern(struct_id)
        m == search(pattern, t)
        simple == search(SimpleElementPattern(struct_id), t)
    IN  IF m.ok THEN <<m.st, m.e, strip(group(m, t, 2))>>
        ELSE IF simple.ok THEN <<simple.st, simple.e, strip(group(simple, t, 2))>>
        ELSE None

\* AmendmentApplier._apply_strike_through_end
_apply_strike_through_end(t, marker_text, insert_text) ==
    LET exact == find(t, marker_text)
        marker_pos == IF exact = -1 THEN find(lower(t), lower(marker_text)) ELSE exact
        remaining_text == SliceFrom(t, marker_pos)
        hits == {k \in DOMAIN end_patterns : search(end_patterns[k], remaining_text).ok}
        m == search(end_patterns[Min(hits)], remaining_text)
        last_period == rfind(t, <<".">>)
        end_pos == IF hits # {} THEN marker_pos + m.st + 1
                   ELSE IF last_period > marker_pos THEN last_period + 1
                   ELSE -1
    IN  IF marker_pos = -1 THEN <<t, FALSE>>
        ELSE IF end_pos = -1 THEN <<t, FALSE>>
        ELSE <<rstrip(Slice(t, 0, marker_pos)) \o <<" ">> \o insert_text
                 \o lstrip(SliceFrom(t, end_pos)), TRUE>>

\* AmendmentApplier._apply_structural_strike_insert
_apply_structural_strike_insert(t, structural_ref, insert_text) ==
    LET struct_match == MatchAt(STRUCT_REF_PATTERN, structural_ref, 0)
        struct_type == lower(group(struct_match, structural_ref, 1))
        struct_id == group(struct_match, structural_ref, 2)
        element_content == _find_structural_element(t, struct_type, struct_id)
        start_pos == element_content[1]
        end_pos == element_content[2]
        formatted_insert == <<"(">> \o struct_id \o <<")", " ">> \o insert_text
    IN  IF ~struct_match.ok THEN <<t, FALSE>>
        ELSE IF element_content = None THEN <<t, FALSE>>
        ELSE <<Slice(t, 0, start_pos) \o formatted_insert \o SliceFrom(t, end_pos), TRUE>>

\* AmendmentApplier._apply_strike_insert that replaces every occurrence
_apply_strike_insert_all(t, a) ==
    IF Contains(t, a.text_to_strike)
    THEN <<replace(t, a.text_to_strike, a.text_to_insert), TRUE>>
    ELSE <<t, FALSE>>

\* AmendmentApplier._apply_strike_insert
_apply_strike_insert(t, a) ==
    LET strike_text == a.text_to_strike
        insert_text == a.text_to_insert
        is_all_that_follows == Contains(strike_text, THROUGH_END_MARKER)
        is_each_place == Contains(strike_text, EACH_PLACE_MARKER)
        is_structural ==
            \/ startswith(strike_text, SUBPARAGRAPH \o <<" ", "(">>)
            \/ startswith(strike_text, PARAGRAPH \o <<" ", "(">>)
            \/ startswith(strike_text, SUBSECTION \o <<" ", "(">>)
        each_text == replace(strike_text, SpaceThen(EACH_PLACE_MARKER), <<>>)
        through_text == replace(strike_text, SpaceThen(THROUGH_END_MARKER), <<>>)
    IN  IF is_each_place THEN
            IF Contains(t, each_text) THEN <<replace(t, each_text, insert_text), TRUE>>
            ELSE IF search(Escaped(each_text, TRUE), t).ok
                 THEN <<sub(Escaped(each_text, TRUE), insert_text, t, 0), TRUE>>
            ELSE <<t, FALSE>>
        ELSE IF is_all_that_follows
             THEN _apply_strike_through_end(t, through_text, insert_text)
        ELSE IF is_structural
             THEN _apply_structural_strike_insert(t, strike_text, insert_text)
        ELSE IF Contains(t, strike_text)
             THEN <<replace_n(t, strike_text, insert_text, 1), TRUE>>
        ELSE IF search(Escaped(strike_text, TRUE), t).ok
             THEN <<sub(Escaped(strike_text, TRUE), insert_text, t, 1), TRUE>>
        ELSE <<t, FALSE>>

\* an _apply_insert_after that appends when the marker is missing
_apply_insert_after_append(t, a) ==
    IF Contains(t, a.position_marker)
    THEN <<replace_n(t, a.position_marker, a.position_marker \o <<" ">> \o a.text_to_insert, 1),
           TRUE>>
    ELSE <<t \o <<" ">> \o a.text_to_insert, TRUE>>

\* AmendmentApplier._apply_insert_after
_apply_insert_after(t, a) ==
    LET insert_text == IF ~startswith(a.text_to_insert, <<" ">>)
                       THEN <<" ">> \o a.text_to_insert ELSE a.text_to_insert
        m == search(Escaped(a.position_marker, TRUE), t)
    IN  IF Contains(t, a.position_marker)
        THEN <<replace_n(t, a.position_marker, a.position_marker \o insert_text, 1), TRUE>>
        ELSE IF m.ok THEN <<Slice(t, 0, m.e) \o insert_text \o SliceFrom(t, m.e), TRUE>>
        ELSE <<t, FALSE>>

\* AmendmentApplier._apply_insert_before
_apply_insert_before(t, a) ==
    LET insert_text == IF ~endswith(a.text_to_insert, <<" ">>)
                       THEN a.text_to_insert \o <<" ">> ELSE a.text_to_insert
        m == search(Escaped(a.position_marker, TRUE), t)
    IN  IF Contains(t, a.position_marker)
        THEN <<replace_n(t, a.position_marker, insert_text \o a.position_marker, 1), TRUE>>
        ELSE IF m.ok THEN <<Slice(t, 0, m.st) \o insert_text \o SliceFrom(t, m.st), TRUE>>
        ELSE <<t, FALSE>>

\* an _apply_read_as_follows that appends to the text instead of replacing it
_apply_read_as_follows_append(t, a) == <<t \o a.text_to_insert, TRUE>>

\* AmendmentApplier._apply_read_as_follows
_apply_read_as_follows(t, a) == <<a.text_to_insert, TRUE>>

\* AmendmentApplier._apply_add_at_end
_apply_add_at_end(t, a) == <<rstrip(t) \o <<"\n", "\n">> \o a.text_to_insert, TRUE>>

\* AmendmentApplier._apply_add_at_beginning
_apply_add_at_beginning(t, a) == <<a.text_to_insert \o <<"\n", "\n">> \o lstrip(t), TRUE>>

\* the loop of _apply_structural_strike over [id1, id2]: the text and the
\* success flag after the elements ids[k], ids[k+1], ...
RECURSIVE StrikeElements(_, _, _, _)
StrikeElements(result_text, success, ids, k) ==
    IF k > Len(ids) THEN <<result_text, success>>
    ELSE LET element == _find_structural_element(result_text, SUBPARAGRAPH, ids[k])
         IN  IF element # None
             THEN StrikeElements(Slice(result_text, 0, element[1])
                                   \o SliceFrom(result_text, element[2]), TRUE, ids, k + 1)
             ELSE StrikeElements(result_text, success, ids, k + 1)

\* AmendmentApplier._apply_structural_strike
_apply_structural_strike(t, structural_ref) ==
    LET multi_match == MatchAt(MULTI_REF_PATTERN, structural_ref, 0)
        id1 == group(multi_match, structural_ref, 1)
        id2 == group(multi_match, structural_ref, 2)
        both == StrikeElements(t, FALSE, <<id1, id2>>, 1)
        struct_match == MatchAt(STRUCT_REF_PATTERN, structural_ref, 0)
        struct_type == lower(group(struct_match, structural_ref, 1))
        struct_id == group(struct_match, structural_ref, 2)
        element == _find_structural_element(t, struct_type, struct_id)
    IN  IF multi_match.ok THEN (IF both[2] THEN <<both[1], TRUE>> ELSE <<t, FALSE>>)
        ELSE IF struct_match.ok THEN
            IF element # None
            THEN <<Slice(t, 0, element[1]) \o SliceFrom(t, element[2]), TRUE>>
            ELSE <<t, FALSE>>
        ELSE <<t, FALSE>>

\* AmendmentApplier._apply_strike
_apply_strike(t, a) ==
    LET strike_text == a.text_to_strike
        is_each_place == Contains(strike_text, EACH_PLACE_MARKER)
        is_structural ==
            \/ startswith(strike_text, SUBPARAGRAPH)
            \/ startswith(strike_text, PARAGRAPH)
            \/ startswith(strike_text, SUBSECTION)
        each_text == replace(strike_text, SpaceThen(EACH_PLACE_MARKER), <<>>)
    IN  IF is_each_place THEN
            IF Contains(t, each_text) THEN <<replace(t, each_text, <<>>), TRUE>>
            ELSE IF search(Escaped(each_text, TRUE), t).ok
                 THEN <<sub(Escaped(each_text, TRUE), <<>>, t, 0), TRUE>>
            ELSE <<t, FALSE>>
        ELSE IF is_structural THEN _apply_structural_strike(t, strike_text)
        ELSE IF Contains(t, strike_text) THEN <<replace_n(t, strike_text, <<>>, 1), TRUE>>
        ELSE IF search(Escaped(strike_text, TRUE), t).ok
             THEN <<sub(Escaped(strike_text, TRUE), <<>>, t, 1), TRUE>>
        ELSE <<t, FALSE>>

\* AmendmentApplier.apply: <<amended_text, success>>.  No helper raises on
\* the texts of the model, so the except branch is not taken.
apply(original_text, a) ==
    IF ~is_valid(a) THEN <<original_text, FALSE>>
    ELSE CASE a.amendment_type = STRIKE_INSERT -> _apply_strike_insert(original_text, a)
           [] a.amendment_type = INSERT_AFTER -> _apply_insert_after(original_text, a)
           [] a.amendment_type = INSERT_BEFORE -> _apply_insert_before(original_text, a)
           [] a.amendment_type = READ_AS_FOLLOWS -> _apply_read_as_follows(original_text, a)
           [] a.amendment_type = ADD_AT_END -> _apply_add_at_end(original_text, a)
           [] a.amendment_type = ADD_AT_BEGINNING -> _apply_add_at_beginning(original_text, a)
           [] a.amendment_type = STRIKE -> _apply_strike(original_text, a)
           [] OTHER -> <<original_text, FALSE>>

(***************************************************************************)
(* AmendmentParser (amendment_parser.py): the pattern tables               *)
(***************************************************************************)
\* \s+ under re.IGNORECASE
WS == Plus(In(SpaceSet, TRUE))

\* the characters that open or close a quoted text in QUOTE_PATTERN
QuoteChars == {"\"", "U201C", "U201D", "U2018", "U2019", "'"}

\* AmendmentParser.QUOTE_PATTERN, its text being group n
QUOTE_PATTERN(n) ==
    Cat(<<In(QuoteChars, TRUE), Group(n, Plus(NotIn(QuoteChars, TRUE))), In(QuoteChars, TRUE)>>)

\* AmendmentParser.STRIKE_INSERT_PATTERNS
STRIKE_INSERT_PATTERNS ==
    << Cat(<<Opt(Cat(<<Lit(<<"b","y">>, TRUE), WS>>)), Lit(<<"s","t","r","i","k","i","n","g">>,
         TRUE), WS, QUOTE_PATTERN(1), WS, Lit(<<"a","n","d">>, TRUE), WS,
         Lit(<<"i","n","s","e","r","t","i","n","g">>, TRUE), WS, QUOTE_PATTERN(2)>>),
       Cat(<<Lit(<<"s","t","r","i","k","e">>, TRUE), WS, QUOTE_PATTERN(1), WS,
         Lit(<<"a","n","d">>, TRUE), WS, Lit(<<"i","n","s","e","r","t">>, TRUE),
         Opt(Lit(<<"i","n","g">>, TRUE)), WS, QUOTE_PATTERN(2)>>),
       Cat(<<Lit(<<"s","t","r","i","k","i","n","g">>, TRUE), WS, Lit(<<"o","u","t">>, TRUE),
         WS, QUOTE_PATTERN(1), WS, Lit(<<"a","n","d">>, TRUE), WS,
         Lit(<<"i","n","s","e","r","t","i","n","g">>, TRUE), WS, Opt(Cat(<<Lit(<<"i","n">>,
         TRUE), WS, Lit(<<"l","i","e","u">>, TRUE), WS, Lit(<<"t","h","e","r","e","o","f">>,
         TRUE), WS>>)), QUOTE_PATTERN(2)>>),
       Cat(<<Opt(Cat(<<Lit(<<"b","y">>, TRUE), WS>>)), Lit(<<"s","t","r","i","k","i","n","g">>,
         TRUE), WS, QUOTE_PATTERN(1), WS, Lit(<<"a","n","d">>, TRUE), WS,
         Lit(<<"i","n","s","e","r","t","i","n","g">>, TRUE), WS, Lit(<<"i","n">>, TRUE), WS,
         Lit(<<"p","l","a","c","e">>, TRUE), WS, Lit(<<"t","h","e","r","e","o","f">>, TRUE),
         WS, QUOTE_PATTERN(2)>>),
       Cat(<<Opt(Cat(<<Lit(<<"b","y">>, TRUE), WS>>)), Lit(<<"s","t","r","i","k","i","n","g">>,
         TRUE), WS, QUOTE_PATTERN(1), WS, Lit(<<"a","n","d">>, TRUE), WS, Lit(<<"a","l","l">>,
         TRUE), WS, Lit(<<"t","h","a","t">>, TRUE), WS, Lit(<<"f","o","l","l","o","w","s">>,
         TRUE), WS, Lit(<<"t","h","r","o","u","g","h">>, TRUE), WS, Lit(<<"t","h","e">>, TRUE),
         WS, Lit(<<"p","e","r","i","o","d">>, TRUE), WS, Lit(<<"a","t">>, TRUE), WS,
         Lit(<<"t","h","e">>, TRUE), WS, Lit(<<"e","n","d">>, TRUE), WS, Lit(<<"a","n","d">>,
         TRUE), WS, Lit(<<"i","n","s","e","r","t","i","n","g">>, TRUE), WS, QUOTE_PATTERN(2)>>),
       Cat(<<Opt(Cat(<<Lit(<<"b","y">>, TRUE), WS>>)), Lit(<<"s","t","r","i","k","i","n","g">>,
         TRUE), WS, Lit(<<"p","a","r","a","g","r","a","p","h">>, TRUE), Star(In(SpaceSet,
         TRUE)), Lit(<<"(">>, TRUE), Group(1, Plus(In(DigitSet, TRUE))), Lit(<<")">>, TRUE),
         WS, Lit(<<"a","n","d">>, TRUE), WS, Lit(<<"i","n","s","e","r","t","i","n","g">>,
         TRUE), WS, Opt(Cat(<<Lit(<<"t","h","e">>, TRUE), WS,
         Lit(<<"f","o","l","l","o","w","i","n","g">>, TRUE), Plus(In(SpaceSet \cup {":"},
         TRUE))>>)), Group(2, PlusLazy(Dot(TRUE))), Ahead(Alt(<<Lit(<<"\n","\n">>, TRUE),
         AtEnd, Cat(<<Lit(<<"\"",".">>, TRUE), Star(In(SpaceSet, TRUE)), AtDollar>>)>>))>>) >>

\* AmendmentParser.STRIKE_THROUGH_END_PATTERNS
STRIKE_THROUGH_END_PATTERNS ==
    << Cat(<<Opt(Cat(<<Lit(<<"b","y">>, TRUE), WS>>)), Lit(<<"s","t","r","i","k","i","n","g">>,
         TRUE), WS, QUOTE_PATTERN(1), WS, Lit(<<"a","n","d">>, TRUE), WS, Lit(<<"a","l","l">>,
         TRUE), WS, Lit(<<"t","h","a","t">>, TRUE), WS, Lit(<<"f","o","l","l","o","w","s">>,
         TRUE), WS, Lit(<<"t","h","r","o","u","g","h">>, TRUE), WS,
         Opt(Cat(<<Lit(<<"t","h","e">>, TRUE), WS>>)), Alt(<<Lit(<<"p","e","r","i","o","d">>,
         TRUE), Lit(<<"s","e","m","i","c","o","l","o","n">>, TRUE)>>), WS, Lit(<<"a","t">>,
         TRUE), WS, Lit(<<"t","h","e">>, TRUE), WS, Lit(<<"e","n","d">>, TRUE), WS,
         Lit(<<"a","n","d">>, TRUE), WS, Lit(<<"i","n","s","e","r","t","i","n","g">>, TRUE),
         WS, QUOTE_PATTERN(2)>>),
       Cat(<<Opt(Cat(<<Lit(<<"b","y">>, TRUE), WS>>)), Lit(<<"s","t","r","i","k","i","n","g">>,
         TRUE), WS, QUOTE_PATTERN(1), WS, Lit(<<"a","n","d">>, TRUE), WS, Lit(<<"a","l","l">>,
         TRUE), WS, Lit(<<"t","h","a","t">>, TRUE), WS, Lit(<<"f","o","l","l","o","w","s">>,
         TRUE), WS, Lit(<<"t","h","r","o","u","g","h">>, TRUE), WS,
         Opt(Cat(<<Lit(<<"t","h","e">>, TRUE), WS>>)), Alt(<<Lit(<<"p","e","r","i","o","d">>,
         TRUE), Lit(<<"s","e","m","i","c","o","l","o","n">>, TRUE)>>), WS, Lit(<<"a","t">>,
         TRUE), WS, Lit(<<"t","h","e">>, TRUE), WS, Lit(<<"e","n","d">>, TRUE),
         NotAhead(Cat(<<WS, Lit(<<"a","n","d">>, TRUE), WS, Lit(<<"i","n","s","e","r","t">>,
         TRUE)>>))>>) >>

\* AmendmentParser.STRIKE_SUBPARAGRAPH_PATTERNS
STRIKE_SUBPARAGRAPH_PATTERNS ==
    << Cat(<<Opt(Cat(<<Lit(<<"b","y">>, TRUE), WS>>)), Lit(<<"s","t","r","i","k","i","n","g">>,
         TRUE), WS, Lit(<<"s","u","b","p","a","r","a","g","r","a","p","h">>, TRUE),
         Opt(Lit(<<"s">>, TRUE)), Star(In(SpaceSet, TRUE)), Lit(<<"(">>, TRUE), Group(1,
         In(UpperSet, TRUE)), Lit(<<")">>, TRUE), WS, Lit(<<"a","n","d">>, TRUE), WS,
         Lit(<<"(">>, TRUE), Group(2, In(UpperSet, TRUE)), Lit(<<")">>, TRUE)>>),
       Cat(<<Opt(Cat(<<Lit(<<"b","y">>, TRUE), WS>>)), Lit(<<"s","t","r","i","k","i","n","g">>,
         TRUE), WS, Lit(<<"s","u","b","p","a","r","a","g","r","a","p","h">>, TRUE),
         Star(In(SpaceSet, TRUE)), Lit(<<"(">>, TRUE), Group(1, In(UpperSet, TRUE)),
         Lit(<<")">>, TRUE), NotAhead(Cat(<<WS, Lit(<<"a","n","d">>, TRUE), WS,
         Lit(<<"i","n","s","e","r","t">>, TRUE)>>))>>),
       Cat(<<Opt(Cat(<<Lit(<<"b","y">>, TRUE), WS>>)), Lit(<<"s","t","r","i","k","i","n","g">>,
         TRUE), WS, Lit(<<"p","a","r","a","g","r","a","p","h">>, TRUE), Star(In(SpaceSet,
         TRUE)), Lit(<<"(">>, TRUE), Group(1, Plus(In(DigitSet, TRUE))), Lit(<<")">>, TRUE),
         NotAhead(Cat(<<WS, Lit(<<"a","n","d">>, TRUE), WS, Lit(<<"i","n","s","e","r","t">>,
         TRUE)>>))>>),
       Cat(<<Opt(Cat(<<Lit(<<"b","y">>, TRUE), WS>>)), Lit(<<"s","t","r","i","k","i","n","g">>,
         TRUE), WS, Lit(<<"s","u","b","s","e","c","t","i","o","n">>, TRUE), Star(In(SpaceSet,
         TRUE)), Lit(<<"(">>, TRUE), Group(1, In(LowerSet, TRUE)), Lit(<<")">>, TRUE)>>) >>

\* AmendmentParser.INSERT_AFTER_PATTERNS
INSERT_AFTER_PATTERNS ==
    << Cat(<<Opt(Cat(<<Lit(<<"b","y">>, TRUE), WS>>)),
         Lit(<<"i","n","s","e","r","t","i","n","g">>, TRUE), WS,
         Opt(Cat(<<Lit(<<"i","m","m","e","d","i","a","t","e","l","y">>, TRUE), WS>>)),
         Lit(<<"a","f","t","e","r">>, TRUE), WS, QUOTE_PATTERN(1), WS,
         Opt(Cat(<<Lit(<<"t","h","e">>, TRUE), WS, Lit(<<"f","o","l","l","o","w","i","n","g">>,
         TRUE), Plus(In(SpaceSet \cup {":"}, TRUE))>>)), QUOTE_PATTERN(2)>>),
       Cat(<<Lit(<<"i","n","s","e","r","t","i","n","g">>, TRUE), WS,
         Lit(<<"a","f","t","e","r">>, TRUE), WS, QUOTE_PATTERN(1), Lit(<<":">>, TRUE),
         Star(In(SpaceSet, TRUE)), Opt(In({"\"", "U201C"}, TRUE)), Group(2, Plus(NotIn({"\"",
         "U201D", ";", "."}, TRUE))), Opt(In({"\"", "U201D"}, TRUE))>>) >>

\* AmendmentParser.INSERT_BEFORE_PATTERNS
INSERT_BEFORE_PATTERNS ==
    << Cat(<<Opt(Cat(<<Lit(<<"b","y">>, TRUE), WS>>)),
         Lit(<<"i","n","s","e","r","t","i","n","g">>, TRUE), WS,
         Opt(Cat(<<Lit(<<"i","m","m","e","d","i","a","t","e","l","y">>, TRUE), WS>>)),
         Lit(<<"b","e","f","o","r","e">>, TRUE), WS, QUOTE_PATTERN(1), WS,
         Opt(Cat(<<Lit(<<"t","h","e">>, TRUE), WS, Lit(<<"f","o","l","l","o","w","i","n","g">>,
         TRUE), Plus(In(SpaceSet \cup {":"}, TRUE))>>)), QUOTE_PATTERN(2)>>) >>

\* AmendmentParser.READ_AS_FOLLOWS_PATTERNS
READ_AS_FOLLOWS_PATTERNS ==
    << Cat(<<Opt(Cat(<<Lit(<<"i","s">>, TRUE), WS>>)), Lit(<<"a","m","e","n","d","e","d">>,
         TRUE), WS, Lit(<<"t","o">>, TRUE), WS, Lit(<<"r","e","a","d">>, TRUE), WS,
         Lit(<<"a","s">>, TRUE), WS, Lit(<<"f","o","l","l","o","w","s">>, TRUE),
         Plus(In(SpaceSet \cup {":"}, TRUE)), Group(1, PlusLazy(Dot(TRUE))),
         Ahead(Alt(<<Lit(<<"\n","\n">>, TRUE), AtEnd>>))>>),
       Cat(<<Lit(<<"s","h","a","l","l">>, TRUE), WS, Lit(<<"r","e","a","d">>, TRUE), WS,
         Lit(<<"a","s">>, TRUE), WS, Lit(<<"f","o","l","l","o","w","s">>, TRUE),
         Plus(In(SpaceSet \cup {":"}, TRUE)), Group(1, PlusLazy(Dot(TRUE))),
         Ahead(Alt(<<Lit(<<"\n","\n">>, TRUE), AtEnd>>))>>) >>

\* AmendmentParser.ADD_AT_END_PATTERNS
ADD_AT_END_PATTERNS ==
    << Cat(<<Opt(Cat(<<Lit(<<"b","y">>, TRUE), WS>>)), Lit(<<"a","d","d","i","n","g">>, TRUE),
         WS, Lit(<<"a","t">>, TRUE), WS, Lit(<<"t","h","e">>, TRUE), WS, Lit(<<"e","n","d">>,
         TRUE), WS, Opt(Cat(<<Lit(<<"t","h","e","r","e","o","f">>, TRUE), WS>>)),
         Opt(Cat(<<Lit(<<"t","h","e">>, TRUE), WS, Lit(<<"f","o","l","l","o","w","i","n","g">>,
         TRUE), Plus(In(SpaceSet \cup {":"}, TRUE))>>)), Group(1, PlusLazy(Dot(TRUE))),
         Ahead(Alt(<<Lit(<<"\n","\n">>, TRUE), AtEnd>>))>>),
       Cat(<<Opt(Cat(<<Lit(<<"b","y">>, TRUE), WS>>)), Lit(<<"a","d","d","i","n","g">>, TRUE),
         WS, Lit(<<"a","t">>, TRUE), WS, Lit(<<"t","h","e">>, TRUE), WS,
         Lit(<<"e","n","d",":">>, TRUE), Star(In(SpaceSet, TRUE)), Opt(In({"\"", "U201C"},
         TRUE)), Group(1, Plus(NotIn({"\"", "U201D", ";", "."}, TRUE))), Opt(In({"\"",
         "U201D"}, TRUE))>>) >>

\* AmendmentParser.ADD_AT_BEGINNING_PATTERNS
ADD_AT_BEGINNING_PATTERNS ==
    << Cat(<<Opt(Cat(<<Lit(<<"b","y">>, TRUE), WS>>)),
         Alt(<<Lit(<<"i","n","s","e","r","t","i","n","g">>, TRUE),
         Lit(<<"a","d","d","i","n","g">>, TRUE)>>), WS, Opt(Cat(<<Lit(<<"a","t">>, TRUE),
         WS>>)), Lit(<<"t","h","e">>, TRUE), WS, Lit(<<"b","e","g","i","n","n","i","n","g">>,
         TRUE), WS, Opt(Cat(<<Lit(<<"t","h","e","r","e","o","f">>, TRUE), WS>>)),
         Opt(Cat(<<Lit(<<"t","h","e">>, TRUE), WS, Lit(<<"f","o","l","l","o","w","i","n","g">>,
         TRUE), Plus(In(SpaceSet \cup {":"}, TRUE))>>)), Group(1, PlusLazy(Dot(TRUE))),
         Ahead(Alt(<<Lit(<<"\n","\n">>, TRUE), AtEnd>>))>>) >>

\* AmendmentParser.STRIKE_PATTERNS
STRIKE_PATTERNS ==
    << Cat(<<Opt(Cat(<<Lit(<<"b","y">>, TRUE), WS>>)), Lit(<<"s","t","r","i","k","i","n","g">>,
         TRUE), WS, QUOTE_PATTERN(1), NotAhead(Cat(<<WS, Lit(<<"a","n","d">>, TRUE), WS,
         Lit(<<"i","n","s","e","r","t">>, TRUE)>>)), NotAhead(Cat(<<WS,
         Lit(<<"e","a","c","h">>, TRUE), WS, Lit(<<"p","l","a","c","e">>, TRUE)>>))>>),
       Cat(<<Opt(Cat(<<Lit(<<"b","y">>, TRUE), WS>>)), Lit(<<"d","e","l","e","t","i","n","g">>,
         TRUE), WS, QUOTE_PATTERN(1)>>),
       Cat(<<Lit(<<"s","t","r","i","k","e">>, TRUE), WS, Lit(<<"o","u","t">>, TRUE), WS,
         QUOTE_PATTERN(1)>>),
       Cat(<<Opt(Cat(<<Lit(<<"b","y">>, TRUE), WS>>)), Lit(<<"s","t","r","i","k","i","n","g">>,
         TRUE), WS, QUOTE_PATTERN(1), WS, Lit(<<"a","t">>, TRUE), WS, Lit(<<"t","h","e">>,
         TRUE), WS, Lit(<<"e","n","d">>, TRUE), NotAhead(Cat(<<WS, Lit(<<"a","n","d">>,
         TRUE)>>))>>) >>

\* AmendmentParser.STRIKE_EACH_PLACE_PATTERNS
STRIKE_EACH_PLACE_PATTERNS ==
    << Cat(<<Opt(Cat(<<Lit(<<"b","y">>, TRUE), WS>>)), Lit(<<"s","t","r","i","k","i","n","g">>,
         TRUE), WS, QUOTE_PATTERN(1), WS, Lit(<<"e","a","c","h">>, TRUE), WS,
         Lit(<<"p","l","a","c","e">>, TRUE), WS, Alt(<<Lit(<<"i","t">>, TRUE),
         Cat(<<Lit(<<"t","h","e">>, TRUE), WS, Lit(<<"t","e","r","m">>, TRUE)>>)>>), WS,
         Lit(<<"a","p","p","e","a","r","s">>, TRUE)>>),
       Cat(<<Opt(Cat(<<Lit(<<"b","y">>, TRUE), WS>>)), Lit(<<"s","t","r","i","k","i","n","g">>,
         TRUE), WS, QUOTE_PATTERN(1), WS, Lit(<<"e","a","c","h">>, TRUE), WS,
         Lit(<<"p","l","a","c","e">>, TRUE), WS, Alt(<<Lit(<<"i","t">>, TRUE),
         Cat(<<Lit(<<"t","h","e">>, TRUE), WS, Lit(<<"t","e","r","m">>, TRUE)>>)>>), WS,
         Lit(<<"a","p","p","e","a","r","s">>, TRUE), WS, Lit(<<"a","n","d">>, TRUE), WS,
         Lit(<<"i","n","s","e","r","t","i","n","g">>, TRUE), WS, QUOTE_PATTERN(2)>>) >>

\* AmendmentParser.STRIKE_END_INSERT_PATTERNS
STRIKE_END_INSERT_PATTERNS ==
    << Cat(<<Opt(Cat(<<Lit(<<"b","y">>, TRUE), WS>>)), Lit(<<"s","t","r","i","k","i","n","g">>,
         TRUE), WS, Lit(<<"t","h","e">>, TRUE), WS, Group(1, Plus(In(WordSet, TRUE))), WS,
         Lit(<<"a","t">>, TRUE), WS, Lit(<<"t","h","e">>, TRUE), WS, Lit(<<"e","n","d">>,
         TRUE), WS, Lit(<<"a","n","d">>, TRUE), WS,
         Lit(<<"i","n","s","e","r","t","i","n","g">>, TRUE), WS, QUOTE_PATTERN(2)>>),
       Cat(<<Opt(Cat(<<Lit(<<"b","y">>, TRUE), WS>>)), Lit(<<"s","t","r","i","k","i","n","g">>,
         TRUE), WS, QUOTE_PATTERN(1), WS, Lit(<<"a","t">>, TRUE), WS, Lit(<<"t","h","e">>,
         TRUE), WS, Lit(<<"e","n","d">>, TRUE), WS, Lit(<<"a","n","d">>, TRUE), WS,
         Lit(<<"i","n","s","e","r","t","i","n","g">>, TRUE), WS, QUOTE_PATTERN(2)>>) >>

\* AmendmentParser.SUBPARAGRAPH_PATTERNS
SUBPARAGRAPH_PATTERNS ==
    << Cat(<<Alt(<<Lit(<<"o","n">>, TRUE), Lit(<<"i","n">>, TRUE)>>), WS,
         Alt(<<Lit(<<"s","u","b","p","a","r","a","g","r","a","p","h">>, TRUE),
         Lit(<<"p","a","r","a","g","r","a","p","h">>, TRUE), Lit(<<"c","l","a","u","s","e">>,
         TRUE)>>), Star(In(SpaceSet, TRUE)), Lit(<<"(">>, TRUE), Group(1,
         Plus(In(UpperSet \cup LowerSet \cup DigitSet, TRUE))), Lit(<<")">>, TRUE),
         Plus(In(SpaceSet \cup {","}, TRUE)), Opt(Cat(<<Lit(<<"b","y">>, TRUE), WS>>)),
         Lit(<<"s","t","r","i","k","i","n","g">>, TRUE), WS, QUOTE_PATTERN(2), WS,
         Lit(<<"a","t">>, TRUE), WS, Lit(<<"t","h","e">>, TRUE), WS, Lit(<<"e","n","d">>,
         TRUE)>>),
       Cat(<<Alt(<<Lit(<<"o","n">>, TRUE), Lit(<<"i","n">>, TRUE)>>), WS,
         Alt(<<Lit(<<"s","u","b","p","a","r","a","g","r","a","p","h">>, TRUE),
         Lit(<<"p","a","r","a","g","r","a","p","h">>, TRUE), Lit(<<"c","l","a","u","s","e">>,
         TRUE)>>), Star(In(SpaceSet, TRUE)), Lit(<<"(">>, TRUE), Group(1,
         Plus(In(UpperSet \cup LowerSet \cup DigitSet, TRUE))), Lit(<<")">>, TRUE),
         Opt(Cat(<<Star(In(SpaceSet, TRUE)), Lit(<<"(">>, TRUE), Group(2,
         Plus(In(DigitSet \cup {"i", "v", "x", "l", "c", "d", "m"}, TRUE))), Lit(<<")">>,
         TRUE)>>)), Plus(In(SpaceSet \cup {","}, TRUE)), Opt(Cat(<<Lit(<<"b","y">>, TRUE),
         WS>>)), Lit(<<"s","t","r","i","k","i","n","g">>, TRUE), WS,
         Opt(Cat(<<Lit(<<"t","h","e">>, TRUE), WS>>)), Group(3, Plus(In(WordSet, TRUE))), WS,
         Lit(<<"a","t">>, TRUE), WS, Lit(<<"t","h","e">>, TRUE), WS, Lit(<<"e","n","d">>,
         TRUE), WS, Lit(<<"a","n","d">>, TRUE), WS,
         Lit(<<"i","n","s","e","r","t","i","n","g">>, TRUE), WS, QUOTE_PATTERN(4)>>),
       Cat(<<Alt(<<Lit(<<"o","n">>, TRUE), Lit(<<"i","n">>, TRUE)>>), WS,
         Alt(<<Lit(<<"s","u","b","p","a","r","a","g","r","a","p","h">>, TRUE),
         Lit(<<"p","a","r","a","g","r","a","p","h">>, TRUE), Lit(<<"c","l","a","u","s","e">>,
         TRUE)>>), Star(In(SpaceSet, TRUE)), Lit(<<"(">>, TRUE), Group(1,
         Plus(In(UpperSet \cup LowerSet \cup DigitSet, TRUE))), Lit(<<")">>, TRUE),
         Opt(Cat(<<Star(In(SpaceSet, TRUE)), Lit(<<"(">>, TRUE), Group(2,
         Plus(In(DigitSet \cup {"i", "v", "x", "l", "c", "d", "m"}, TRUE))), Lit(<<")">>,
         TRUE)>>)), Plus(In(SpaceSet \cup {","}, TRUE)), Opt(Cat(<<Lit(<<"b","y">>, TRUE),
         WS>>)), Lit(<<"s","t","r","i","k","i","n","g">>, TRUE), WS,
         Opt(Cat(<<Lit(<<"t","h","e">>, TRUE), WS>>)), Group(3, Plus(In(WordSet, TRUE))), WS,
         Lit(<<"a","t">>, TRUE), WS, Lit(<<"t","h","e">>, TRUE), WS, Lit(<<"e","n","d">>,
         TRUE), WS, Lit(<<"a","n","d">>, TRUE), WS,
         Lit(<<"i","n","s","e","r","t","i","n","g">>, TRUE), WS, Opt(Cat(<<Lit(<<"a">>, TRUE),
         WS>>)), Group(4, Plus(In(WordSet, TRUE)))>>),
       Cat(<<Opt(Cat(<<Lit(<<"b","y">>, TRUE), WS>>)), Lit(<<"s","t","r","i","k","i","n","g">>,
         TRUE), WS, Alt(<<Lit(<<"s","u","b","p","a","r","a","g","r","a","p","h">>, TRUE),
         Lit(<<"p","a","r","a","g","r","a","p","h">>, TRUE), Lit(<<"c","l","a","u","s","e">>,
         TRUE)>>), Star(In(SpaceSet, TRUE)), Lit(<<"(">>, TRUE), Group(1,
         Plus(In(UpperSet \cup LowerSet \cup DigitSet, TRUE))), Lit(<<")">>, TRUE), WS,
         Lit(<<"a","n","d">>, TRUE), WS, Lit(<<"i","n","s","e","r","t","i","n","g">>, TRUE),
         WS, Opt(Cat(<<Lit(<<"t","h","e">>, TRUE), WS,
         Lit(<<"f","o","l","l","o","w","i","n","g">>, TRUE), Plus(In(SpaceSet \cup {":"},
         TRUE))>>)), Group(2, PlusLazy(Dot(TRUE))), Ahead(Alt(<<Lit(<<"\n","\n">>, TRUE),
         AtEnd, Lit(<<"\"",".">>, TRUE), Cat(<<Lit(<<"\"">>, TRUE), Star(In(SpaceSet, TRUE)),
         AtDollar>>)>>))>>) >>

\* AmendmentParser.REDESIGNATE_PATTERNS
REDESIGNATE_PATTERNS ==
    << Cat(<<Opt(Cat(<<Lit(<<"b","y">>, TRUE), WS>>)),
         Lit(<<"r","e","d","e","s","i","g","n","a","t","i","n","g">>, TRUE), WS, Group(1,
         Cat(<<Plus(In(WordSet, TRUE)), Star(In(SpaceSet, TRUE)), Lit(<<"(">>, TRUE),
         Plus(NotIn({")"}, TRUE)), Lit(<<")">>, TRUE)>>)), WS, Lit(<<"a","s">>, TRUE), WS,
         Group(2, Cat(<<Plus(In(WordSet, TRUE)), Star(In(SpaceSet, TRUE)), Lit(<<"(">>, TRUE),
         Plus(NotIn({")"}, TRUE)), Lit(<<")">>, TRUE)>>))>>) >>

\* AmendmentParser.DEFINITIONAL_PATTERNS
DEFINITIONAL_PATTERNS ==
    << Cat(<<Lit(<<"(","a","s">>, TRUE), WS, Lit(<<"d","e","f","i","n","e","d">>, TRUE), WS,
         Lit(<<"i","n">>, TRUE), WS, Alt(<<Lit(<<"s","e","c","t","i","o","n">>, TRUE),
         Lit(<<"p","a","r","a","g","r","a","p","h">>, TRUE)>>)>>),
       Cat(<<Lit(<<"h","a","s">>, TRUE), WS, Lit(<<"t","h","e">>, TRUE), WS,
         Lit(<<"m","e","a","n","i","n","g">>, TRUE), WS, Lit(<<"g","i","v","e","n">>, TRUE)>>),
       Cat(<<Lit(<<"t","h","e">>, TRUE), WS, Lit(<<"t","e","r","m">>, TRUE), WS, In({"\"",
         "'"}, TRUE), PlusLazy(Dot(FALSE)), In({"\"", "'"}, TRUE), WS,
         Lit(<<"m","e","a","n","s">>, TRUE)>>),
       Cat(<<Lit(<<"f","o","r">>, TRUE), WS, Lit(<<"p","u","r","p","o","s","e","s">>, TRUE),
         WS, Lit(<<"o","f">>, TRUE), WS, Lit(<<"t","h","i","s">>, TRUE)>>),
       Cat(<<Lit(<<"u","n","d","e","r">>, TRUE), WS, Alt(<<Lit(<<"s","e","c","t","i","o","n">>,
         TRUE), Lit(<<"p","a","r","a","g","r","a","p","h">>, TRUE),
         Lit(<<"s","u","b","p","a","r","a","g","r","a","p","h">>, TRUE)>>)>>) >>

\* AmendmentParser.AMENDMENT_INDICATOR_PATTERNS
AMENDMENT_INDICATOR_PATTERNS ==
    << Cat(<<Lit(<<"i","s">>, TRUE), WS, Lit(<<"a","m","e","n","d","e","d">>, TRUE)>>),
       Cat(<<Lit(<<"a","r","e">>, TRUE), WS, Lit(<<"a","m","e","n","d","e","d">>, TRUE)>>),
       Cat(<<Lit(<<"i","s">>, TRUE), WS, Lit(<<"h","e","r","e","b","y">>, TRUE), WS,
         Lit(<<"a","m","e","n","d","e","d">>, TRUE)>>),
       Cat(<<Lit(<<"s","h","a","l","l">>, TRUE), WS, Lit(<<"b","e">>, TRUE), WS,
         Lit(<<"a","m","e","n","d","e","d">>, TRUE)>>),
       Cat(<<Lit(<<"i","s">>, TRUE), WS, Lit(<<"f","u","r","t","h","e","r">>, TRUE), WS,
         Lit(<<"a","m","e","n","d","e","d">>, TRUE)>>),
       Cat(<<Lit(<<"a","r","e">>, TRUE), WS, Lit(<<"f","u","r","t","h","e","r">>, TRUE), WS,
         Lit(<<"a","m","e","n","d","e","d">>, TRUE)>>),
       Cat(<<Lit(<<"b","y">>, TRUE), WS, Lit(<<"s","t","r","i","k","i","n","g">>, TRUE)>>),
       Cat(<<Lit(<<"b","y">>, TRUE), WS, Lit(<<"i","n","s","e","r","t","i","n","g">>, TRUE)>>),
       Cat(<<Lit(<<"b","y">>, TRUE), WS, Lit(<<"a","d","d","i","n","g">>, TRUE)>>),
       Cat(<<Lit(<<"b","y">>, TRUE), WS,
         Lit(<<"r","e","d","e","s","i","g","n","a","t","i","n","g">>, TRUE)>>) >>

\* AmendmentParser.SECTION_REF_PATTERN
SECTION_REF_PATTERN ==
    Cat(<<Alt(<<Lit(<<"s","e","c","t","i","o","n">>, TRUE),
      Lit(<<"s","u","b","s","e","c","t","i","o","n">>, TRUE),
      Lit(<<"p","a","r","a","g","r","a","p","h">>, TRUE),
      Lit(<<"s","u","b","p","a","r","a","g","r","a","p","h">>, TRUE)>>), Star(In(SpaceSet,
      TRUE)), Opt(Lit(<<"(">>, TRUE)), Plus(In(DigitSet, TRUE)), Opt(Lit(<<")">>, TRUE)),
      Star(Cat(<<Star(In(SpaceSet, TRUE)), Lit(<<"(">>, TRUE),
      Plus(In(LowerSet \cup UpperSet \cup DigitSet, TRUE)), Lit(<<")">>, TRUE)>>))>>)

\* AmendmentParser.NUMBERED_AMENDMENT_PATTERN
NUMBERED_AMENDMENT_PATTERN ==
    Cat(<<Lit(<<"i","s">>, TRUE), WS, Opt(Cat(<<Lit(<<"f","u","r","t","h","e","r">>, TRUE),
      WS>>)), Lit(<<"a","m","e","n","d","e","d">>, TRUE), Plus(In(SpaceSet \cup {"U2014", "-",
      ":"}, TRUE)), Opt(Cat(<<Lit(<<"\n">>, TRUE), Star(In(SpaceSet, TRUE))>>)), Group(1,
      Cat(<<Lit(<<"(">>, TRUE), Plus(In(DigitSet, TRUE)), Lit(<<")">>, TRUE), Plus(NotIn({"("},
      TRUE)), Star(Cat(<<Lit(<<"(">>, TRUE), Plus(In(DigitSet, TRUE)), Lit(<<")">>, TRUE),
      Plus(NotIn({"("}, TRUE))>>))>>))>>)

\* the pattern that _parse_numbered_amendments splits the list by
NUMBERED_ITEM_SPLIT_PATTERN ==
    Cat(<<Lit(<<"(">>, FALSE), Plus(In(DigitSet, FALSE)), Lit(<<")">>, FALSE),
      Star(In(SpaceSet, FALSE))>>)

\* _parse_single_amendment_item: on subparagraph (X), by striking 'Y' at the end
ITEM_STRIKE_AT_END_PATTERN ==
    Cat(<<Alt(<<Lit(<<"o","n">>, TRUE), Lit(<<"i","n">>, TRUE)>>), WS,
      Alt(<<Lit(<<"s","u","b","p","a","r","a","g","r","a","p","h">>, TRUE),
      Lit(<<"p","a","r","a","g","r","a","p","h">>, TRUE), Lit(<<"c","l","a","u","s","e">>,
      TRUE)>>), Star(In(SpaceSet, TRUE)), Lit(<<"(">>, TRUE), Group(1,
      Plus(In(UpperSet \cup LowerSet \cup DigitSet, TRUE))), Lit(<<")">>, TRUE),
      Plus(In(SpaceSet \cup {","}, TRUE)), Opt(Cat(<<Lit(<<"b","y">>, TRUE), WS>>)),
      Lit(<<"s","t","r","i","k","i","n","g">>, TRUE), WS, In({"\"", "'"}, TRUE), Group(2,
      Plus(NotIn({"\"", "'"}, TRUE))), In({"\"", "'"}, TRUE), Opt(Cat(<<WS, Lit(<<"a","t">>,
      TRUE), WS, Lit(<<"t","h","e">>, TRUE), WS, Lit(<<"e","n","d">>, TRUE)>>))>>)

\* _parse_single_amendment_item: striking the period at the end and inserting '; or'
ITEM_STRIKE_WORD_INSERT_PATTERN ==
    Cat(<<Alt(<<Lit(<<"o","n">>, TRUE), Lit(<<"i","n">>, TRUE)>>), WS,
      Alt(<<Lit(<<"s","u","b","p","a","r","a","g","r","a","p","h">>, TRUE),
      Lit(<<"p","a","r","a","g","r","a","p","h">>, TRUE), Lit(<<"c","l","a","u","s","e">>,
      TRUE)>>), Star(In(SpaceSet, TRUE)), Lit(<<"(">>, TRUE), Group(1,
      Plus(In(UpperSet \cup LowerSet \cup DigitSet, TRUE))), Lit(<<")">>, TRUE),
      Opt(Cat(<<Star(In(SpaceSet, TRUE)), Lit(<<"(">>, TRUE), Group(2,
      Plus(In(DigitSet \cup {"i", "v", "x", "l", "c", "d", "m"}, TRUE))), Lit(<<")">>,
      TRUE)>>)), Plus(In(SpaceSet \cup {","}, TRUE)), Opt(Cat(<<Lit(<<"b","y">>, TRUE), WS>>)),
      Lit(<<"s","t","r","i","k","i","n","g">>, TRUE), WS, Opt(Cat(<<Lit(<<"t","h","e">>, TRUE),
      WS>>)), Group(3, Plus(In(WordSet, TRUE))), WS, Lit(<<"a","t">>, TRUE), WS,
      Lit(<<"t","h","e">>, TRUE), WS, Lit(<<"e","n","d">>, TRUE), WS, Lit(<<"a","n","d">>,
      TRUE), WS, Lit(<<"i","n","s","e","r","t","i","n","g">>, TRUE), WS, In({"\"", "'"}, TRUE),
      Group(4, Plus(NotIn({"\"", "'"}, TRUE))), In({"\"", "'"}, TRUE)>>)

\* _parse_single_amendment_item: by adding at the end the following
ITEM_ADD_AT_END_PATTERN ==
    Cat(<<Opt(Cat(<<Lit(<<"b","y">>, TRUE), WS>>)), Lit(<<"a","d","d","i","n","g">>, TRUE), WS,
      Lit(<<"a","t">>, TRUE), WS, Lit(<<"t","h","e">>, TRUE), WS, Lit(<<"e","n","d">>, TRUE),
      WS, Opt(Cat(<<Lit(<<"t","h","e">>, TRUE), WS,
      Lit(<<"f","o","l","l","o","w","i","n","g">>, TRUE), Plus(In(SpaceSet \cup {":"},
      TRUE))>>)), Opt(In({"\"", "'"}, TRUE)), Group(1, PlusLazy(Dot(TRUE))), Opt(In({"\"",
      "'"}, TRUE)), Star(In(SpaceSet, TRUE)), Opt(In({".", ";"}, TRUE)), Star(In(SpaceSet,
      TRUE)), AtDollar>>)

\* _parse_single_amendment_item: by striking subparagraph (E) and inserting the following
ITEM_STRIKE_SUBPARA_PATTERN ==
    Cat(<<Opt(Cat(<<Lit(<<"b","y">>, TRUE), WS>>)), Lit(<<"s","t","r","i","k","i","n","g">>,
      TRUE), WS, Alt(<<Lit(<<"s","u","b","p","a","r","a","g","r","a","p","h">>, TRUE),
      Lit(<<"p","a","r","a","g","r","a","p","h">>, TRUE)>>), Star(In(SpaceSet, TRUE)),
      Lit(<<"(">>, TRUE), Group(1, Plus(In(UpperSet \cup LowerSet \cup DigitSet, TRUE))),
      Lit(<<")">>, TRUE), WS, Lit(<<"a","n","d">>, TRUE), WS,
      Lit(<<"i","n","s","e","r","t","i","n","g">>, TRUE), WS, Opt(Cat(<<Lit(<<"t","h","e">>,
      TRUE), WS, Lit(<<"f","o","l","l","o","w","i","n","g">>, TRUE),
      Plus(In(SpaceSet \cup {":"}, TRUE))>>)), Opt(In({"\"", "'"}, TRUE)), Group(2,
      PlusLazy(Dot(TRUE))), Opt(In({"\"", "'"}, TRUE)), Star(In(SpaceSet, TRUE)), AtDollar>>)

(***************************************************************************)
(* AmendmentParser: the recognizers and parse                              *)
(***************************************************************************)
\* pattern.groups: the number of groups of a pattern
RECURSIVE GroupCount(_)
RECURSIVE GroupCountOfAll(_, _)
GroupCountOfAll(rs, k) ==
    IF k > Len(rs) THEN 0 ELSE GroupCount(rs[k]) + GroupCountOfAll(rs, k + 1)

GroupCount(r) ==
    CASE r.t \in {"cat", "alt"} -> GroupCountOfAll(r.a, 1)
      [] r.t = "group" -> 1 + GroupCount(r.r)
      [] r.t \in {"rep", "ahead"} -> GroupCount(r.r)
      [] OTHER -> 0

\* for pattern in patterns: for match in pattern.finditer(t): the matches in
\* that order, each with the number of groups of its pattern
WithGroupCount(ms, n) == [j \in 1..Len(ms) |-> [m |-> ms[j], n |-> n]]

MatchesOfAll(patterns, t) ==
    Concat([k \in 1..Len(patterns) |->
              WithGroupCount(finditer(patterns[k], t), GroupCount(patterns[k]))])

\* some pattern of the table is found in t
AnySearch(patterns, t) == \E k \in 1..Len(patterns) : search(patterns[k], t).ok

\* str.strip(chars)
strip_chars(s, chars) ==
    LET keep == {k \in 1..Len(s) : s[k] \notin chars}
    IN  IF keep = {} THEN <<>> ELSE SubSeq(s, Min(keep), Max(keep))

\* re.split(pattern, s) for a pattern without groups
SplitAt(ms, s) ==
    [k \in 1..(Len(ms) + 1) |->
        Slice(s, IF k = 1 THEN 0 ELSE ms[k - 1].e,
                 IF k > Len(ms) THEN Len(s) ELSE ms[k].st)]

split(re, s) == SplitAt(finditer(re, s), s)

\* the dictionary of _parse_single_amendment_item and _parse_strike_end_insert
strike_text_of(word) ==
    CASE lower(word) = <<"p","e","r","i","o","d">> -> <<".">>
      [] lower(word) = <<"c","o","m","m","a">> -> <<",">>
      [] lower(word) = <<"s","e","m","i","c","o","l","o","n">> -> <<";">>
      [] OTHER -> word

\* word_map of _parse_subparagraph_amendments
word_map(word) ==
    CASE lower(word) = <<"p","e","r","i","o","d">> -> <<".">>
      [] lower(word) = <<"c","o","m","m","a">> -> <<",">>
      [] lower(word) = <<"s","e","m","i","c","o","l","o","n">> -> <<";">>
      [] lower(word) = <<"c","o","l","o","n">> -> <<":">>
      [] OTHER -> word

\* f"subparagraph ({subpara})", and the same with its clause
SubparagraphRef(subpara) == SUBPARAGRAPH \o <<" ", "(">> \o subpara \o <<")">>

SubparagraphClauseRef(subpara, clause) ==
    SubparagraphRef(subpara) \o (IF Truthy(clause) THEN <<"(">> \o clause \o <<")">> ELSE <<>>)

\* AmendmentParseResult
AmendmentParseResult(amendments, unparsed_text, success, error_message) ==
    [amendments |-> amendments, unparsed_text |-> unparsed_text, success |-> success,
     error_message |-> error_message]

\* is_definitional_reference with the test of the amendment language inverted
is_definitional_reference_with_indicator(t) ==
    AnySearch(DEFINITIONAL_PATTERNS, t) /\ AnySearch(AMENDMENT_INDICATOR_PATTERNS, t)

\* AmendmentParser.is_definitional_reference
is_definitional_reference(t) ==
    AnySearch(DEFINITIONAL_PATTERNS, t) /\ ~AnySearch(AMENDMENT_INDICATOR_PATTERNS, t)

\* AmendmentParser.is_amendment_context
is_amendment_context(t) == AnySearch(AMENDMENT_INDICATOR_PATTERNS, t)

\* AmendmentParser._deduplicate_amendments
_deduplicate_amendments(amendments) ==
    LET key(a) == <<a.amendment_type, a.text_to_strike, a.text_to_insert>>
        first == {j \in 1..Len(amendments) :
                     \A i \in 1..(j - 1) : key(amendments[i]) # key(amendments[j])}
        nth(n) == CHOOSE j \in first : Cardinality({i \in first : i <= j}) = n
    IN  [n \in 1..Cardinality(first) |-> amendments[nth(n)]]

\* match.group(n).strip(), and None where the recognizer takes no group (n = 0)
StrippedGroup(m, t, n) == IF n = 0 THEN None ELSE strip(group(m, t, n))

\* for match in ...: amendments.append(ParsedAmendment(...)) of the recognizers
\* that take the strike text, the insert text and the position marker from
\* the groups strike_n, insert_n and marker_n, white space stripped
FromMatches(ms, type, strike_n, insert_n, marker_n, conf, t) ==
    [j \in 1..Len(ms) |->
        ParsedAmendment(type, StrippedGroup(ms[j].m, t, strike_n),
                        StrippedGroup(ms[j].m, t, insert_n),
                        StrippedGroup(ms[j].m, t, marker_n), None,
                        group0(ms[j].m, t), conf)]

\* a _parse_strike_insert that keeps the white space around the quoted texts
_parse_strike_insert_unstripped(t) ==
    LET ms == MatchesOfAll(STRIKE_INSERT_PATTERNS, t)
    IN  [j \in 1..Len(ms) |->
            ParsedAmendment(STRIKE_INSERT, group(ms[j].m, t, 1), group(ms[j].m, t, 2),
                            None, None, group0(ms[j].m, t), 90)]

\* AmendmentParser._parse_strike_insert
_parse_strike_insert(t) ==
    FromMatches(MatchesOfAll(STRIKE_INSERT_PATTERNS, t), STRIKE_INSERT, 1, 2, 0, 90, t)

\* AmendmentParser._parse_single_amendment_item, given the four searches of
\* the item
SingleAmendmentItem(item, strike_at_end_match, strike_word_insert_match, add_at_end_match, strike_subpara_match) ==
    IF strike_at_end_match.ok THEN
        << ParsedAmendment(STRIKE, group(strike_at_end_match, item, 2), None, None,
                           SubparagraphRef(group(strike_at_end_match, item, 1)), item, 90) >>
    ELSE IF strike_word_insert_match.ok THEN
        << ParsedAmendment(STRIKE_INSERT,
                           strike_text_of(group(strike_word_insert_match, item, 3)),
                           group(strike_word_insert_match, item, 4), None,
                           SubparagraphClauseRef(group(strike_word_insert_match, item, 1),
                                                 group(strike_word_insert_match, item, 2)),
                           item, 90) >>
    ELSE IF add_at_end_match.ok THEN
        << ParsedAmendment(ADD_AT_END, None,
                           strip_chars(strip(group(add_at_end_match, item, 1)), {"\"", "'"}),
                           None, None, item, 90) >>
    ELSE IF strike_subpara_match.ok THEN
        << ParsedAmendment(STRIKE_INSERT,
                           SubparagraphRef(group(strike_subpara_match, item, 1)),
                           strip_chars(strip(group(strike_subpara_match, item, 2)),
                                       {"\"", "'"}),
                           None, None, item, 85) >>
    ELSE <<>>

\* AmendmentParser._parse_single_amendment_item
_parse_single_amendment_item(item) ==
    SingleAmendmentItem(item, search(ITEM_STRIKE_AT_END_PATTERN, item),
                        search(ITEM_STRIKE_WORD_INSERT_PATTERN, item),
                        search(ITEM_ADD_AT_END_PATTERN, item),
                        search(ITEM_STRIKE_SUBPARA_PATTERN, item))

\* [item.strip() for item in items if item.strip()]
StrippedNonEmpty(pieces) ==
    SelectSeq([k \in 1..Len(pieces) |-> strip(pieces[k])], LAMBDA item : Len(item) > 0)

\* for item in items: amendments.extend(_parse_single_amendment_item(item))
NumberedItems(items) ==
    Concat([k \in 1..Len(items) |-> _parse_single_amendment_item(items[k])])

\* AmendmentParser._parse_numbered_amendments, given the search for the list
NumberedAmendments(match, t) ==
    IF ~match.ok THEN <<>>
    ELSE NumberedItems(StrippedNonEmpty(split(NUMBERED_ITEM_SPLIT_PATTERN,
                                              group(match, t, 1))))

\* AmendmentParser._parse_numbered_amendments
_parse_numbered_amendments(t) ==
    NumberedAmendments(search(NUMBERED_AMENDMENT_PATTERN, t), t)

\* AmendmentParser._parse_strike_end_insert
StrikeEndInserts(ms, t) ==
    [j \in 1..Len(ms) |->
        ParsedAmendment(STRIKE_INSERT, strike_text_of(group(ms[j].m, t, 1)),
                        strip(group(ms[j].m, t, 2)), None, None, group0(ms[j].m, t), 90)]

_parse_strike_end_insert(t) ==
    StrikeEndInserts(MatchesOfAll(STRIKE_END_INSERT_PATTERNS, t), t)

\* AmendmentParser._parse_subparagraph_amendments: the instruction of the match
\* x, whose pattern has x.n groups
SubparagraphAmendment(x, t) ==
    LET raw == group0(x.m, t)
        subpara == group(x.m, t, 1)
    IN  IF x.n = 2 THEN
            IF Contains(lower(raw), <<"a","n","d"," ","i","n","s","e","r","t","i","n","g">>)
            THEN ParsedAmendment(STRIKE_INSERT, SubparagraphRef(subpara),
                     strip_chars(strip(group(x.m, t, 2)), {"\"", "'"}), None,
                     SubparagraphRef(subpara), raw, 90)
            ELSE ParsedAmendment(STRIKE, group(x.m, t, 2), None, None,
                     SubparagraphRef(subpara), raw, 90)
        ELSE ParsedAmendment(STRIKE_INSERT, word_map(group(x.m, t, 3)),
                 strip(word_map(group(x.m, t, 4))), None,
                 SubparagraphClauseRef(subpara, group(x.m, t, 2)), raw, 90)

SubparagraphAmendments(ms, t) == [j \in 1..Len(ms) |-> SubparagraphAmendment(ms[j], t)]

_parse_subparagraph_amendments(t) ==
    SubparagraphAmendments(MatchesOfAll(SUBPARAGRAPH_PATTERNS, t), t)

\* AmendmentParser._parse_insert_after
_parse_insert_after(t) ==
    FromMatches(MatchesOfAll(INSERT_AFTER_PATTERNS, t), INSERT_AFTER, 0, 2, 1, 90, t)

\* AmendmentParser._parse_insert_before
_parse_insert_before(t) ==
    FromMatches(MatchesOfAll(INSERT_BEFORE_PATTERNS, t), INSERT_BEFORE, 0, 2, 1, 90, t)

\* AmendmentParser._parse_read_as_follows
_parse_read_as_follows(t) ==
    FromMatches(MatchesOfAll(READ_AS_FOLLOWS_PATTERNS, t), READ_AS_FOLLOWS, 0, 1, 0, 85, t)

\* AmendmentParser._parse_add_at_end
_parse_add_at_end(t) ==
    FromMatches(MatchesOfAll(ADD_AT_END_PATTERNS, t), ADD_AT_END, 0, 1, 0, 90, t)

\* AmendmentParser._parse_add_at_beginning
_parse_add_at_beginning(t) ==
    FromMatches(MatchesOfAll(ADD_AT_BEGINNING_PATTERNS, t), ADD_AT_BEGINNING, 0, 1, 0, 90, t)

\* AmendmentParser._parse_strike_only
_parse_strike_only(t) ==
    FromMatches(MatchesOfAll(STRIKE_PATTERNS, t), STRIKE, 1, 0, 0, 90, t)

\* the recognizers that put a marker after the strike text: with two groups
\* a StrikeAndInsert, with one a Strike
MarkedStrike(ms, marker, conf, t) ==
    [j \in 1..Len(ms) |->
        IF ms[j].n = 2
        THEN ParsedAmendment(STRIKE_INSERT, strip(group(ms[j].m, t, 1)) \o SpaceThen(marker),
                 strip(group(ms[j].m, t, 2)), None, None, group0(ms[j].m, t), conf)
        ELSE ParsedAmendment(STRIKE, strip(group(ms[j].m, t, 1)) \o SpaceThen(marker),
                 None, None, None, group0(ms[j].m, t), conf)]

\* AmendmentParser._parse_strike_each_place
_parse_strike_each_place(t) ==
    MarkedStrike(MatchesOfAll(STRIKE_EACH_PLACE_PATTERNS, t), EACH_PLACE_MARKER, 90, t)

\* AmendmentParser._parse_strike_through_end
_parse_strike_through_end(t) ==
    MarkedStrike(MatchesOfAll(STRIKE_THROUGH_END_PATTERNS, t), THROUGH_END_MARKER, 85, t)

\* f"{kind} ({id})"
StructuralRef(kind, id) == kind \o <<" ", "(">> \o id \o <<")">>

\* the strike text of _parse_strike_subparagraphs for the match x, raw being
\* its text in lower case
StrikeSubparagraphTarget(x, t, raw) ==
    IF x.n = 2
    THEN SUBPARAGRAPH \o <<"s", " ", "(">> \o group(x.m, t, 1)
         \o <<")"," ","a","n","d"," ","(">> \o group(x.m, t, 2) \o <<")">>
    ELSE IF Contains(raw, SUBSECTION) THEN StructuralRef(SUBSECTION, group(x.m, t, 1))
    ELSE IF Contains(raw, PARAGRAPH) /\ ~Contains(raw, <<"s", "u", "b">>)
    THEN StructuralRef(PARAGRAPH, group(x.m, t, 1))
    ELSE StructuralRef(SUBPARAGRAPH, group(x.m, t, 1))

StrikeSubparagraphs(ms, t) ==
    [j \in 1..Len(ms) |->
        ParsedAmendment(STRIKE,
                        StrikeSubparagraphTarget(ms[j], t, lower(group0(ms[j].m, t))),
                        None, None, None, group0(ms[j].m, t), 90)]

\* AmendmentParser._parse_strike_subparagraphs
_parse_strike_subparagraphs(t) ==
    StrikeSubparagraphs(MatchesOfAll(STRIKE_SUBPARAGRAPH_PATTERNS, t), t)

\* AmendmentParser._parse_redesignate
_parse_redesignate(t) ==
    FromMatches(MatchesOfAll(REDESIGNATE_PATTERNS, t), REDESIGNATE, 1, 2, 0, 85, t)

\* AmendmentParser._detect_from_keywords: the instruction in a list, or for None
\* the empty list
_detect_from_keywords(t) ==
    LET text_lower == lower(t)
        Detected(type) ==
            << ParsedAmendment(type, None, None, None, None, Slice(t, 0, 200), 50) >>
    IN  IF Contains(text_lower, <<"s","t","r","i","k","i","n","g">>) /\ Contains(text_lower, <<"i","n","s","e","r","t","i","n","g">>)
        THEN Detected(STRIKE_INSERT)
        ELSE IF Contains(text_lower, <<"i","n","s","e","r","t","i","n","g"," ","a","f","t","e","r">>) THEN Detected(INSERT_AFTER)
        ELSE IF Contains(text_lower, <<"r","e","a","d"," ","a","s"," ","f","o","l","l","o","w","s">>) THEN Detected(READ_AS_FOLLOWS)
        ELSE IF Contains(text_lower, <<"a","d","d","i","n","g"," ","a","t"," ","t","h","e"," ","e","n","d">>) THEN Detected(ADD_AT_END)
        ELSE IF Contains(text_lower, <<"s","t","r","i","k","i","n","g">>) \/ Contains(text_lower, <<"d","e","l","e","t","i","n","g">>)
        THEN Detected(STRIKE)
        ELSE <<>>

\* AmendmentParser.parse: the target section of every instruction, and the result
WithTargetSection(amendments, section_match, t) ==
    AmendmentParseResult(
        [k \in 1..Len(amendments) |->
            IF section_match.ok
            THEN [amendments[k] EXCEPT !.target_section = group0(section_match, t)]
            ELSE amendments[k]],
        IF Len(amendments) = 0 THEN t ELSE <<>>,
        Len(amendments) > 0, None)

\* AmendmentParser.parse: the instructions found, or else the one the keywords give
FoundOrDetected(found, t) == IF Len(found) = 0 THEN _detect_from_keywords(t) ELSE found

\* AmendmentParser.parse, from the normalized text on
ParseNormalized(t) ==
    IF is_definitional_reference(t) /\ ~is_amendment_context(t)
    THEN AmendmentParseResult(<<>>, <<>>, FALSE,
             <<"T","e","x","t"," ","a","p","p","e","a","r","s"," ","t","o"," ","b","e"," ","a"," ","d","e","f","i","n","i","t","i","o","n","a","l"," ","r","e","f","e","r","e","n","c","e",","," ","n","o","t"," ","a","n"," ","a","m","e","n","d","m","e","n","t">>)
    ELSE WithTargetSection(
             FoundOrDetected(
                 _deduplicate_amendments(
                     _parse_numbered_amendments(t)
                     \o _parse_strike_insert(t)
                     \o _parse_strike_end_insert(t)
                     \o _parse_strike_through_end(t)
                     \o _parse_strike_subparagraphs(t)
                     \o _parse_subparagraph_amendments(t)
                     \o _parse_insert_after(t)
                     \o _parse_insert_before(t)
                     \o _parse_read_as_follows(t)
                     \o _parse_add_at_end(t)
                     \o _parse_add_at_beginning(t)
                     \o _parse_strike_only(t)
                     \o _parse_strike_each_place(t)
                     \o _parse_redesignate(t)), t),
             search(SECTION_REF_PATTERN, t), t)

\* AmendmentParser.parse
parse(raw_text) ==
    IF Len(raw_text) = 0
    THEN AmendmentParseResult(<<>>, <<>>, FALSE, <<"N","o"," ","t","e","x","t"," ","p","r","o","v","i","d","e","d">>)
    ELSE ParseNormalized(normalize_quotes(raw_text))

(***************************************************************************)
(* The quote normalizer on its own: normalize a text, then normalize the   *)
(* result again.  normalized lists the results so far.                     *)
(***************************************************************************)
\* the longest text given to the normalizer
MaxQuoteLen == 3

\* the ten variants, the two ASCII quotes and a character that is no quote
QuoteAlphabet ==
    {"U201C", "U201D", "U2018", "U2019", "U201A", "U201B", "U201E", "U201F",
     "U2032", "U2033", "\"", "'", "a"}

QuoteTexts == UNION {[1..n -> QuoteAlphabet] : n \in 0..MaxQuoteLen}

InitNormalize ==
    /\ pc = "start"
    /\ text \in QuoteTexts
    /\ normalized = <<>>
    /\ amendment = None
    /\ subsection = None
    /\ applied = None
    /\ extraction = None
    /\ parsed = None
    /\ db = None
    /\ utcnow = 0
    /\ requests = None
    /\ response = None

Normalize ==
    /\ pc = "start"
    /\ normalized' = <<normalize_quotes(text)>>
    /\ pc' = "normalized"
    /\ UNCHANGED <<text, amendment, subsection, applied, extraction, parsed, db, utcnow, requests, response>>

NormalizeAgain ==
    /\ pc = "normalized"
    /\ normalized' = Append(normalized, normalize_quotes(normalized[1]))
    /\ pc' = "renormalized"
    /\ UNCHANGED <<text, amendment, subsection, applied, extraction, parsed, db, utcnow, requests, response>>

NextNormalize == Normalize \/ NormalizeAgain

SpecNormalize == InitNormalize /\ [][NextNormalize]_vars

\* the variants by kind, as the claim names them
DoubleVariants == {"U201C", "U201D", "U201E", "U201F", "U2033"}

SingleVariants == {"U2018", "U2019", "U201A", "U201B", "U2032"}

\* C8: normalize_quotes is idempotent: normalizing a normalized text gives
\* that text again.
C8_Idempotent ==
    pc = "renormalized" => normalized[2] = normalized[1]

C8_Witness ==
    /\ pc = "renormalized"
    /\ normalized[1] # text
    /\ \E k \in DOMAIN text : text[k] \in SingleVariants

\* C9: normalize_quotes maps position by position: a double variant becomes
\* the ASCII double quote, a single variant the ASCII single quote, every
\* other character stays; so the length is kept, no variant is left, and a
\* text without variants is returned as it is.
C9_PositionWise ==
    pc # "start" =>
        LET out == normalized[1]
        IN  /\ Len(out) = Len(text)
            /\ \A k \in DOMAIN text :
                  out[k] = IF text[k] \in DoubleVariants THEN "\""
                           ELSE IF text[k] \in SingleVariants THEN "'"
                           ELSE text[k]
            /\ \A k \in DOMAIN out : out[k] \notin DoubleVariants \cup SingleVariants
            /\ (\A k \in DOMAIN text : text[k] \notin DoubleVariants \cup SingleVariants)
                  => out = text

C9_Witness ==
    /\ pc = "normalized"
    /\ Len(text) = MaxQuoteLen
    /\ text[1] \in DoubleVariants
    /\ text[2] = "a"
    /\ text[3] = text[1]

(***************************************************************************)
(* The applier on its own: one call of apply on a statute text and an      *)
(* instruction.  applied is what the call returned.                        *)
(***************************************************************************)
\* the most pieces a statute text of the applier is made of
MaxApplyPieces == 3

\* the pieces: letters, blanks, a period, and elements with their markers
ApplyPieces ==
    << <<"a">>, <<"b">>, <<" ">>, <<".">>, <<"\n">>, <<"(","A",")"," ","x">>, <<"(","B",")"," ","y">>, <<"(","a",")"," ","z">>, <<"(","1",")"," ","w">> >>

ApplyTexts ==
    {Concat([k \in 1..Len(f) |-> ApplyPieces[f[k]]]) :
        f \in UNION {[1..n -> DOMAIN ApplyPieces] : n \in 0..MaxApplyPieces}}

\* the literal anchors and the texts to insert
ApplyAnchors == {<<"a">>, <<"a","b">>}

ApplyInserts == {<<"q">>, <<"a","b">>}

\* references to one structural element: <<reference, marker of the element>>
SingleRefs ==
    { <<<<"s","u","b","p","a","r","a","g","r","a","p","h"," ","(","A",")">>, <<"(","A",")">>>>,
      <<<<"p","a","r","a","g","r","a","p","h"," ","(","1",")">>, <<"(","1",")">>>>,
      <<<<"s","u","b","s","e","c","t","i","o","n"," ","(","a",")">>, <<"(","a",")">>>> }

\* "subparagraphs (A) and (B)"
MULTI_REF == <<"s","u","b","p","a","r","a","g","r","a","p","h","s"," ","(","A",")"," ","a","n","d"," ","(","B",")">>

\* the instructions by form, as the parser builds them
PlainStrikeInsert(S, I) == ParsedAmendment(STRIKE_INSERT, S, I, None, None, <<>>, 90)

EachPlaceStrikeInsert(S, I) ==
    ParsedAmendment(STRIKE_INSERT, S \o SpaceThen(EACH_PLACE_MARKER), I, None, None, <<>>, 90)

ThroughEndStrikeInsert(S, I) ==
    ParsedAmendment(STRIKE_INSERT, S \o SpaceThen(THROUGH_END_MARKER), I, None, None, <<>>, 85)

InsertAfter(M, I) == ParsedAmendment(INSERT_AFTER, None, I, M, None, <<>>, 90)

InsertBefore(M, I) == ParsedAmendment(INSERT_BEFORE, None, I, M, None, <<>>, 90)

ReadAsFollows(I) == ParsedAmendment(READ_AS_FOLLOWS, None, I, None, None, <<>>, 85)

AddAtEnd(I) == ParsedAmendment(ADD_AT_END, None, I, None, None, <<>>, 90)

AddAtBeginning(I) == ParsedAmendment(ADD_AT_BEGINNING, None, I, None, None, <<>>, 90)

PlainStrike(S) == ParsedAmendment(STRIKE, S, None, None, None, <<>>, 90)

ThroughEndStrike(S) ==
    ParsedAmendment(STRIKE, S \o SpaceThen(THROUGH_END_MARKER), None, None, None, <<>>, 85)

EachPlaceStrike(S) ==
    ParsedAmendment(STRIKE, S \o SpaceThen(EACH_PLACE_MARKER), None, None, None, <<>>, 90)

Redesignate(S, I) == ParsedAmendment(REDESIGNATE, S, I, None, None, <<>>, 85)

ApplyAmendments ==
    {PlainStrikeInsert(S, I) : S \in ApplyAnchors, I \in ApplyInserts}
    \cup {EachPlaceStrikeInsert(S, <<"q">>) : S \in ApplyAnchors}
    \cup {ThroughEndStrikeInsert(S, <<"q">>) : S \in ApplyAnchors}
    \cup {PlainStrikeInsert(r[1], <<"q">>) : r \in SingleRefs}
    \cup {InsertAfter(M, <<"q">>) : M \in ApplyAnchors}
    \cup {InsertBefore(M, <<"q">>) : M \in ApplyAnchors}
    \cup {ReadAsFollows(I) : I \in ApplyInserts \cup {<<>>}}
    \cup {AddAtEnd(<<"q">>), AddAtBeginning(<<"q">>)}
    \cup {PlainStrike(S) : S \in ApplyAnchors}
    \cup {EachPlaceStrike(S) : S \in ApplyAnchors}
    \cup {PlainStrike(r[1]) : r \in SingleRefs}
    \cup {PlainStrike(MULTI_REF)}
    \cup {Redesignate(<<"s","u","b","s","e","c","t","i","o","n"," ","(","a",")">>, <<"s","u","b","s","e","c","t","i","o","n"," ","(","b",")">>)}

InitApply ==
    /\ pc = "start"
    /\ text \in ApplyTexts
    /\ amendment \in ApplyAmendments
    /\ applied = None
    /\ normalized = <<>>
    /\ subsection = None
    /\ extraction = None
    /\ parsed = None
    /\ db = None
    /\ utcnow = 0
    /\ requests = None
    /\ response = None

Apply ==
    /\ pc = "start"
    /\ applied' = apply(text, amendment)
    /\ pc' = "applied"
    /\ UNCHANGED <<text, amendment, subsection, normalized, extraction, parsed, db, utcnow, requests, response>>

NextApply == Apply

SpecApply == InitApply /\ [][NextApply]_vars

\* p occurs in s, whatever the case of the letters
ContainsAnyCase(s, p) == Contains(lower(s), lower(p))

\* the number of offsets of s where p occurs
Occurrences(s, p) == Cardinality({j \in 0..(Len(s) - Len(p)) : OccursAt(s, p, j)})

\* C1 as claimed: a plain StrikeAndInsert whose strike text S occurs in the
\* text succeeds with a result in which S no longer occurs and the insert
\* text I occurs exactly once more than before.
C1_Original ==
    \A S \in ApplyAnchors, I \in ApplyInserts :
        (pc = "applied" /\ amendment = PlainStrikeInsert(S, I) /\ Contains(text, S)) =>
            /\ applied[2]
            /\ ~Contains(applied[1], S)
            /\ Occurrences(applied[1], I) = Occurrences(text, I) + 1

\* C1 as amended: a plain StrikeAndInsert whose strike text S occurs in the
\* text succeeds, and the result is the text with the first occurrence of S,
\* and only that one, replaced by the insert text I.
C1_FirstOccurrenceReplaced ==
    \A S \in ApplyAnchors, I \in ApplyInserts :
        (pc = "applied" /\ amendment = PlainStrikeInsert(S, I) /\ Contains(text, S)) =>
            /\ applied[2]
            /\ \E p \in 0..Len(text) :
                  /\ OccursAt(text, S, p)
                  /\ \A q \in 0..(p - 1) : ~OccursAt(text, S, q)
                  /\ applied[1] = Slice(text, 0, p) \o I \o SliceFrom(text, p + Len(S))

C1_Witness ==
    /\ pc = "applied"
    /\ amendment = PlainStrikeInsert(<<"a">>, <<"q">>)
    /\ Occurrences(text, <<"a">>) = 2
    /\ applied[2]
    /\ Occurrences(applied[1], <<"a">>) = 1

\* C2: when the anchor of an instruction (the strike text, the position
\* marker, or the marker of every structural element it names) occurs
\* nowhere in the text, in no case of the letters, apply returns the text
\* as it is with success = false.
C2_AbsentAnchorFails ==
    pc = "applied" =>
        /\ \A S \in ApplyAnchors :
              ( /\ ~ContainsAnyCase(text, S)
                /\ amendment \in
                      {PlainStrikeInsert(S, I) : I \in ApplyInserts}
                      \cup {EachPlaceStrikeInsert(S, I) : I \in ApplyInserts}
                      \cup {ThroughEndStrikeInsert(S, I) : I \in ApplyInserts}
                      \cup {InsertAfter(S, I) : I \in ApplyInserts}
                      \cup {InsertBefore(S, I) : I \in ApplyInserts}
                      \cup {PlainStrike(S), EachPlaceStrike(S)} )
              => applied = <<text, FALSE>>
        /\ \A r \in SingleRefs :
              ( /\ ~ContainsAnyCase(text, r[2])
                /\ amendment \in {PlainStrikeInsert(r[1], I) : I \in ApplyInserts}
                                 \cup {PlainStrike(r[1])} )
              => applied = <<text, FALSE>>
        /\ ( /\ ~ContainsAnyCase(text, <<"(","A",")">>)
             /\ ~ContainsAnyCase(text, <<"(","B",")">>)
             /\ amendment = PlainStrike(MULTI_REF) )
              => applied = <<text, FALSE>>

C2_Witness ==
    /\ pc = "applied"
    /\ amendment = InsertAfter(<<"a","b">>, <<"q">>)
    /\ Contains(text, <<"a">>)
    /\ Contains(text, <<"b">>)
    /\ ~ContainsAnyCase(text, <<"a","b">>)
    /\ applied = <<text, FALSE>>

\* C3: a Strike of "subparagraphs (A) and (B)" succeeds only when
\* both elements are found, (A) in the text and (B) in the text without (A),
\* and then both are removed; if either is missing, apply returns the text
\* as it is with success = false.
C3_NoPartialSuccess ==
    (pc = "applied" /\ amendment = PlainStrike(MULTI_REF)) =>
        LET first == _find_structural_element(text, SUBPARAGRAPH, <<"A">>)
            shortened == Slice(text, 0, first[1]) \o SliceFrom(text, first[2])
            second == _find_structural_element(shortened, SUBPARAGRAPH, <<"B">>)
        IN  IF first # None /\ second # None
            THEN applied = <<Slice(shortened, 0, second[1]) \o SliceFrom(shortened, second[2]),
                             TRUE>>
            ELSE applied = <<text, FALSE>>

\* C4: a ReadAsFollows with a non-empty insert text returns exactly the
\* insert text, with success = true, whatever the text was.
C4_ReadAsFollowsReplaces ==
    (pc = "applied" /\ amendment.amendment_type = READ_AS_FOLLOWS
        /\ Len(amendment.text_to_insert) > 0) =>
        applied = <<amendment.text_to_insert, TRUE>>

C4_Witness ==
    /\ pc = "applied"
    /\ amendment = ReadAsFollows(<<"q">>)
    /\ Len(text) = MaxApplyPieces
    /\ applied = <<<<"q">>, TRUE>>

\* C5: a Redesignate instruction of the parser is valid, and apply returns
\* the text unchanged with success = true.
C5_RedesignateValidAndUnchanged ==
    (pc = "applied" /\ amendment.amendment_type = REDESIGNATE) =>
        /\ is_valid(amendment)
        /\ applied = <<text, TRUE>>

(***************************************************************************)
(* SubsectionExtractor (subsection_extractor.py)                           *)
(***************************************************************************)
\* str.isdigit, str.islower, str.isupper, str.isalpha
isdigit(s) == Len(s) > 0 /\ \A k \in DOMAIN s : s[k] \in DigitSet

islower(s) == (\E k \in DOMAIN s : s[k] \in LowerSet) /\ (\A k \in DOMAIN s : s[k] \notin UpperSet)

isupper(s) == (\E k \in DOMAIN s : s[k] \in UpperSet) /\ (\A k \in DOMAIN s : s[k] \notin LowerSet)

isalpha(s) == Len(s) > 0 /\ \A k \in DOMAIN s : s[k] \in LowerSet \cup UpperSet

\* the value of a decimal digit
DigitValue(c) ==
    CASE c = "0" -> 0 [] c = "1" -> 1 [] c = "2" -> 2 [] c = "3" -> 3 [] c = "4" -> 4
      [] c = "5" -> 5 [] c = "6" -> 6 [] c = "7" -> 7 [] c = "8" -> 8 [] c = "9" -> 9

\* int(s) for a text of decimal digits
RECURSIVE ToInt(_)
ToInt(s) ==
    IF Len(s) = 0 THEN 0
    ELSE 10 * ToInt(SubSeq(s, 1, Len(s) - 1)) + DigitValue(s[Len(s)])

\* ord(c) of a lower-case letter, counted from "a"
LetterOrd(c) == CHOOSE k \in LetterIndex : LowerLetters[k] = c

\* ExtractionResult
ExtractionResult(success, subsection_notation, extracted_text, full_text, error_message) ==
    [success |-> success, subsection_notation |-> subsection_notation,
     extracted_text |-> extracted_text, full_text |-> full_text,
     error_message |-> error_message]

\* SubsectionExtractor.ANY_MARKER_PATTERN
ANY_MARKER_PATTERN ==
    Cat(<<Lit(<<"(">>, TRUE), Group(1, Alt(<<In(LowerSet, TRUE), Plus(In(DigitSet, TRUE)), In(UpperSet, TRUE), Plus(In({"i", "v", "x", "l", "c", "d", "m"}, TRUE)), Plus(In({"I", "V", "X", "L", "C", "D", "M"}, TRUE))>>)), Lit(<<")">>, TRUE)>>)

\* the pattern of _parse_subsection_notation
NOTATION_PATTERN ==
    Cat(<<Lit(<<"(">>, FALSE), Group(1, Plus(NotIn({")"}, FALSE))), Lit(<<")">>, FALSE)>>)

\* the patterns ^[ivxlcdm]+$ and ^[IVXLCDM]+$ of _get_marker_level
LOWER_ROMAN_PATTERN == Cat(<<Plus(In({"i", "v", "x", "l", "c", "d", "m"}, FALSE)), AtDollar>>)

UPPER_ROMAN_PATTERN == Cat(<<Plus(In({"I", "V", "X", "L", "C", "D", "M"}, FALSE)), AtDollar>>)

\* roman_order of _is_next_in_sequence
roman_order ==
    << <<"i">>, <<"i","i">>, <<"i","i","i">>, <<"i","v">>, <<"v">>,
       <<"v","i">>, <<"v","i","i">>, <<"v","i","i","i">>, <<"i","x">>, <<"x">>,
       <<"x","i">>, <<"x","i","i">>, <<"x","i","i","i">>, <<"x","i","v">>, <<"x","v">>,
       <<"x","v","i">>, <<"x","v","i","i">>, <<"x","v","i","i","i">>, <<"x","i","x">>, <<"x","x">> >>

\* SubsectionExtractor._parse_subsection_notation
_parse_subsection_notation(notation) ==
    LET ms == finditer(NOTATION_PATTERN, notation)
    IN  [k \in 1..Len(ms) |-> group(ms[k], notation, 1)]

\* SubsectionExtractor._find_marker: the offset of the marker, or -1
_find_marker(t, marker) ==
    LET pos == find(t, marker)
    IN  IF pos # -1 THEN pos ELSE find(lower(t), lower(marker))

\* a _get_marker_level that takes every run of roman letters, a single
\* letter included, for a roman numeral
_get_marker_level_roman_first(component) ==
    IF isdigit(component) THEN 2
    ELSE IF islower(component) THEN
        IF MatchAt(LOWER_ROMAN_PATTERN, component, 0).ok THEN 4
        ELSE 1
    ELSE IF isupper(component) THEN
        IF MatchAt(UPPER_ROMAN_PATTERN, component, 0).ok THEN 5
        ELSE 3
    ELSE 1

\* SubsectionExtractor._get_marker_level
_get_marker_level(component) ==
    IF isdigit(component) THEN 2
    ELSE IF islower(component) THEN
        IF Len(component) = 1 THEN 1
        ELSE IF MatchAt(LOWER_ROMAN_PATTERN, component, 0).ok THEN 4
        ELSE 1
    ELSE IF isupper(component) THEN
        IF Len(component) = 1 THEN 3
        ELSE IF MatchAt(UPPER_ROMAN_PATTERN, component, 0).ok THEN 5
        ELSE 3
    ELSE 1

\* SubsectionExtractor._is_next_in_sequence
_is_next_in_sequence(current, candidate) ==
    IF isdigit(current) /\ isdigit(candidate)
    THEN ToInt(candidate) = ToInt(current) + 1
    ELSE IF isalpha(current) /\ isalpha(candidate) THEN
        IF Len(current) = 1 /\ Len(candidate) = 1
        THEN LetterOrd(LowerChar(candidate[1])) = LetterOrd(LowerChar(current[1])) + 1
        ELSE LET cur == {k \in DOMAIN roman_order : roman_order[k] = lower(current)}
                 cand == {k \in DOMAIN roman_order : roman_order[k] = lower(candidate)}
             IN  cur # {} /\ cand # {} /\ Min(cand) = Min(cur) + 1
    ELSE FALSE

\* a _find_subsection_end that stops at the next sibling only
_find_subsection_end_siblings_only(t, start, component) ==
    LET level == _get_marker_level(component)
        search_start == start + Len(component) + 2
        rest == SliceFrom(t, search_start)
        ms == finditer(ANY_MARKER_PATTERN, rest)
        ends == {k \in 1..Len(ms) :
                    LET match_component == group(ms[k], rest, 1)
                    IN  /\ _get_marker_level(match_component) = level
                        /\ _is_next_in_sequence(component, match_component)}
    IN  IF ends = {} THEN Len(t) ELSE search_start + ms[Min(ends)].st

\* a _find_subsection_end that stops at every marker of the same level,
\* whatever its place in the sequence
_find_subsection_end_any_same_level(t, start, component) ==
    LET level == _get_marker_level(component)
        search_start == start + Len(component) + 2
        rest == SliceFrom(t, search_start)
        ms == finditer(ANY_MARKER_PATTERN, rest)
        ends == {k \in 1..Len(ms) :
                    _get_marker_level(group(ms[k], rest, 1)) <= level}
    IN  IF ends = {} THEN Len(t) ELSE search_start + ms[Min(ends)].st

\* SubsectionExtractor._find_subsection_end
_find_subsection_end(t, start, component) ==
    LET level == _get_marker_level(component)
        search_start == start + Len(component) + 2
        rest == SliceFrom(t, search_start)
        ms == finditer(ANY_MARKER_PATTERN, rest)
        ends == {k \in 1..Len(ms) :
                    LET match_component == group(ms[k], rest, 1)
                        match_level == _get_marker_level(match_component)
                    IN  \/ match_level = level /\ _is_next_in_sequence(component, match_component)
                        \/ match_level < level}
    IN  IF ends = {} THEN Len(t) ELSE search_start + ms[Min(ends)].st

\* SubsectionExtractor._extract_nested, from component k on: the text, or None
RECURSIVE ExtractFrom(_, _, _)
ExtractFrom(current_text, components, k) ==
    IF k > Len(components) THEN current_text
    ELSE LET component == components[k]
             marker == <<"(">> \o component \o <<")">>
             marker_pos == _find_marker(current_text, marker)
         IN  IF marker_pos = -1 THEN None
             ELSE LET end == _find_subsection_end(current_text, marker_pos, component)
                  IN  ExtractFrom(strip(Slice(current_text, marker_pos, end)), components, k + 1)

_extract_nested(t, components) == ExtractFrom(t, components, 1)

\* an extract that hands back the full text when it fails
extract_full_text_on_failure(full_text, notation) ==
    IF Len(full_text) = 0
    THEN ExtractionResult(FALSE, notation, full_text, full_text, <<"N","o"," ","t","e","x","t"," ","p","r","o","v","i","d","e","d">>)
    ELSE IF Len(notation) = 0
    THEN ExtractionResult(TRUE, <<>>, full_text, full_text, None)
    ELSE LET components == _parse_subsection_notation(notation)
             extracted == IF Len(components) = 0 THEN None
                          ELSE _extract_nested(full_text, components)
         IN  IF Truthy(extracted)
             THEN ExtractionResult(TRUE, notation, extracted, full_text, None)
             ELSE ExtractionResult(FALSE, notation, full_text, full_text,
                                   <<"C","o","u","l","d"," ","n","o","t"," ","f","i","n","d"," ","s","u","b","s","e","c","t","i","o","n"," ">>)

\* SubsectionExtractor.extract
extract(full_text, notation) ==
    IF Len(full_text) = 0
    THEN ExtractionResult(FALSE, notation, <<>>, full_text, <<"N","o"," ","t","e","x","t"," ","p","r","o","v","i","d","e","d">>)
    ELSE IF Len(notation) = 0
    THEN ExtractionResult(TRUE, <<>>, full_text, full_text, None)
    ELSE LET components == _parse_subsection_notation(notation)
         IN  IF Len(components) = 0
             THEN ExtractionResult(FALSE, notation, <<>>, full_text,
                      <<"C","o","u","l","d"," ","n","o","t"," ","p","a","r","s","e"," ","s","u","b","s","e","c","t","i","o","n"," ","n","o","t","a","t","i","o","n",":"," ">> \o notation)
             ELSE LET extracted == _extract_nested(full_text, components)
                  IN  IF Truthy(extracted)
                      THEN ExtractionResult(TRUE, notation, extracted, full_text, None)
                      ELSE ExtractionResult(FALSE, notation, <<>>, full_text,
                               <<"C","o","u","l","d"," ","n","o","t"," ","f","i","n","d"," ","s","u","b","s","e","c","t","i","o","n"," ">> \o notation
                               \o <<" ","i","n"," ","t","e","x","t">>)

(***************************************************************************)
(* The extractor on its own: one call of extract on a statute text and a   *)
(* subsection notation.  extraction is the ExtractionResult of the call.   *)
(***************************************************************************)
\* the most pieces a statute text of the extractor is made of
MaxExtractPieces == 4

\* the pieces: elements of three levels, led by their markers
ExtractPieces ==
    << <<"(","a",")"," ","F","."," ">>, <<"(","b",")"," ","B"," ">>, <<"(","c",")"," ","Z",".">>, <<"(","d",")"," ","w"," ">>,
       <<"(","1",")"," ","I","."," ">>, <<"(","2",")"," ","J","."," ">>, <<"(","A",")"," ","x"," ">> >>

\* the statute text of the example
EXAMPLE_TEXT ==
    <<"(","a",")"," ","F","o","o","."," ","(","b",")"," ","B","a","r"," ","(","1",")"," ","F","i","r","s","t"," ","i","t","e","m","."," ","(","2",")"," ","S","e","c","o","n","d"," ","i","t","e","m","."," ","(","c",")"," ","B","a","z",".">>

ExtractTexts ==
    {Concat([k \in 1..Len(f) |-> ExtractPieces[f[k]]]) :
        f \in UNION {[1..n -> DOMAIN ExtractPieces] : n \in 0..MaxExtractPieces}}
    \cup {EXAMPLE_TEXT}

\* the addresses, as lists of components
ExtractAddresses ==
    { <<<<"b">>, <<"1">>>>, <<<<"b">>, <<"2">>>>, <<<<"a">>, <<"1">>>>,
      <<<<"b">>, <<"1">>, <<"A">>>>, <<<<"b">>, <<"A">>>>, <<<<"c">>>> }

\* the marker of a component, and the notation of an address
MarkerOf(component) == <<"(">> \o component \o <<")">>

NotationOf(components) == Concat([k \in 1..Len(components) |-> MarkerOf(components[k])])

InitExtract ==
    /\ pc = "start"
    /\ text \in ExtractTexts
    /\ subsection \in {NotationOf(c) : c \in ExtractAddresses}
    /\ extraction = None
    /\ amendment = None
    /\ applied = None
    /\ normalized = <<>>
    /\ parsed = None
    /\ db = None
    /\ utcnow = 0
    /\ requests = None
    /\ response = None

Extract ==
    /\ pc = "start"
    /\ extraction' = extract(text, subsection)
    /\ pc' = "extracted"
    /\ UNCHANGED <<text, amendment, subsection, normalized, applied, parsed, db, utcnow, requests, response>>

NextExtract == Extract

SpecExtract == InitExtract /\ [][NextExtract]_vars

\* the letters of the roman numerals, in either case
RomanLetters == {"i", "v", "x", "l", "c", "d", "m", "I", "V", "X", "L", "C", "D", "M"}

\* the component of the marker that starts at offset p of s, or None when no
\* marker starts there: a parenthesis, then one letter, or digits, or roman
\* letters, then the closing parenthesis
ComponentAt(s, p) ==
    IF p >= Len(s) \/ s[p + 1] # "(" THEN None
    ELSE LET closes == {q \in (p + 1)..(Len(s) - 1) : s[q + 1] = ")"}
         IN  IF closes = {} THEN None
             ELSE LET c == Slice(s, p + 1, Min(closes))
                  IN  IF \/ isdigit(c)
                         \/ Len(c) = 1 /\ isalpha(c)
                         \/ Len(c) > 0 /\ \A k \in DOMAIN c : c[k] \in RomanLetters
                      THEN c ELSE None

\* the offsets of s where a marker starts
MarkerOffsets(s) == {p \in 0..(Len(s) - 1) : ComponentAt(s, p) # None}

\* the markers from offset p on that are nested no deeper than the component
NoDeeperFrom(s, p, component) ==
    {q \in MarkerOffsets(s) :
        q >= p /\ _get_marker_level(ComponentAt(s, q)) <= _get_marker_level(component)}

\* sibling markers appear in sequence: after a marker, the first marker that
\* is nested no deeper is less nested, or holds the next value of the level
InSequence(s) ==
    \A p \in MarkerOffsets(s) :
        LET c == ComponentAt(s, p)
            later == NoDeeperFrom(s, p + 1, c)
        IN  later # {} =>
                LET d == ComponentAt(s, Min(later))
                IN  \/ _get_marker_level(d) < _get_marker_level(c)
                    \/ _is_next_in_sequence(c, d)

\* the span of a component in s: from the first marker of the component to
\* the next marker nested no deeper, or to the end; blanks around it dropped
SpanOf(s, component) ==
    LET start == find(s, MarkerOf(component))
        later == NoDeeperFrom(s, start + Len(MarkerOf(component)), component)
    IN  strip(Slice(s, start, IF later = {} THEN Len(s) ELSE Min(later)))

\* the span of the first k components of an address, each found in the span
\* of the ones before it; None when a marker is not in the span before
RECURSIVE NestedSpan(_, _, _)
NestedSpan(s, components, k) ==
    IF k = 0 THEN s
    ELSE LET outer == NestedSpan(s, components, k - 1)
         IN  IF outer = None \/ ~Contains(outer, MarkerOf(components[k])) THEN None
             ELSE SpanOf(outer, components[k])

\* C6: on a text whose sibling markers appear in sequence, an address of
\* several components, each marker of which is found in the span of the
\* components before it, is extracted with success, and the extracted text
\* is the span from the marker of the last component to the next sibling or
\* less nested marker; on the example text, "(b)(1)" gives "(1) First item.".
C6_NestedSpan ==
    pc = "extracted" =>
        /\ \A c \in ExtractAddresses :
              ( /\ subsection = NotationOf(c)
                /\ Len(c) > 1
                /\ InSequence(text)
                /\ NestedSpan(text, c, Len(c)) # None )
              => /\ extraction.success
                 /\ extraction.extracted_text = NestedSpan(text, c, Len(c))
                 /\ startswith(extraction.extracted_text, MarkerOf(c[Len(c)]))
        /\ (text = EXAMPLE_TEXT /\ subsection = <<"(","b",")","(","1",")">>)
              => /\ extraction.success
                 /\ extraction.extracted_text = <<"(","1",")"," ","F","i","r","s","t"," ","i","t","e","m",".">>
                 /\ ~Contains(extraction.extracted_text, <<"(","2",")">>)
                 /\ ~Contains(extraction.extracted_text, <<"(","c",")">>)

C6_Witness ==
    /\ pc = "extracted"
    /\ text # EXAMPLE_TEXT
    /\ InSequence(text)
    /\ subsection = <<"(","b",")","(","1",")">>
    /\ Contains(text, <<"(","2",")">>)
    /\ Contains(text, <<"(","c",")">>)
    /\ extraction.success
    /\ extraction.extracted_text = <<"(","1",")"," ","I",".">>

\* some component of the address has its marker nowhere in the text, in no
\* case of the letters
MarkerMissing(s, components) ==
    \E k \in DOMAIN components : ~ContainsAnyCase(s, MarkerOf(components[k]))

MaxComponentLen == 3

\* digits, roman letters and other letters of both cases
ComponentAlphabet == {"1", "2", "a", "i", "v", "A", "I", "V"}

Components == UNION {[1..n -> ComponentAlphabet] : n \in 1..MaxComponentLen}

InitLevel ==
    /\ pc = "start"
    /\ text \in Components
    /\ extraction = None
    /\ subsection = None
    /\ amendment = None
    /\ applied = None
    /\ normalized = <<>>
    /\ parsed = None
    /\ db = None
    /\ utcnow = 0
    /\ requests = None
    /\ response = None

GetMarkerLevel ==
    /\ pc = "start"
    /\ extraction' = _get_marker_level(text)
    /\ pc' = "levelled"
    /\ UNCHANGED <<text, amendment, subsection, normalized, applied, parsed, db, utcnow, requests, response>>

NextLevel == GetMarkerLevel

SpecLevel == InitLevel /\ [][NextLevel]_vars

\* every character of s is of the set S
AllIn(s, S) == \A k \in DOMAIN s : s[k] \in S

\* C17: the level of a marker is read off its letters alone: digits are of
\* level 2, a single lower-case letter of level 1, a single upper-case letter
\* of level 3, several lower-case roman letters of level 4 and several
\* upper-case roman letters of level 5; a token of one character, "i", "v",
\* "I" or "V" among them, is never of level 4 or 5.
C17_LexicalLevel ==
    pc = "levelled" =>
        /\ AllIn(text, DigitSet) => extraction = 2
        /\ (Len(text) = 1 /\ AllIn(text, LowerSet)) => extraction = 1
        /\ (Len(text) = 1 /\ AllIn(text, UpperSet)) => extraction = 3
        /\ (Len(text) > 1 /\ AllIn(text, {"i", "v", "x", "l", "c", "d", "m"})) => extraction = 4
        /\ (Len(text) > 1 /\ AllIn(text, {"I", "V", "X", "L", "C", "D", "M"})) => extraction = 5
        /\ Len(text) = 1 => extraction \notin {4, 5}

\* the single letter "i" is of level 1, as a subsection is
C17_Witness ==
    /\ pc = "levelled"
    /\ text = <<"i">>
    /\ extraction = 1

(***************************************************************************)
(* The end of an element on its own: one call of _find_subsection_end, as  *)
(* _extract_nested makes it, at the marker _find_marker finds.  text is    *)
(* the statute text, subsection the component of the element, extraction   *)
(* the offset of the call.                                                 *)
(***************************************************************************)
\* the most pieces that follow the marker of the element
MaxEndPieces == 3

\* the pieces: markers of the five levels and plain text
EndPieces ==
    << <<"(","a",")"," ">>, <<"(","1",")"," ">>, <<"(","2",")"," ">>, <<"(","A",")"," ">>, <<"(","B",")"," ">>, <<"(","C",")"," ">>,
       <<"(","i","i",")"," ">>, <<"(","i","i","i",")"," ">>, <<"(","I","I",")"," ">>, <<"x","."," ">> >>

\* the components of the elements
EndComponents == {<<"1">>, <<"A">>, <<"i","i">>}

\* what stands before the marker of the element
EndPrefixes == {<<>>, <<"(","a",")"," ","x"," ">>}

EndTails ==
    {Concat([k \in 1..Len(f) |-> EndPieces[f[k]]]) :
        f \in UNION {[1..n -> DOMAIN EndPieces] : n \in 0..MaxEndPieces}}

InitEnd ==
    /\ pc = "start"
    /\ subsection \in EndComponents
    /\ text \in {p \o MarkerOf(subsection) \o <<" ">> \o s : p \in EndPrefixes, s \in EndTails}
    /\ extraction = None
    /\ amendment = None
    /\ applied = None
    /\ normalized = <<>>
    /\ parsed = None
    /\ db = None
    /\ utcnow = 0
    /\ requests = None
    /\ response = None

FindSubsectionEnd ==
    /\ pc = "start"
    /\ _find_marker(text, MarkerOf(subsection)) # -1
    /\ extraction' = _find_subsection_end(text, _find_marker(text, MarkerOf(subsection)), subsection)
    /\ pc' = "ended"
    /\ UNCHANGED <<text, amendment, subsection, normalized, applied, parsed, db, utcnow, requests, response>>

NextEnd == FindSubsectionEnd

SpecEnd == InitEnd /\ [][NextEnd]_vars

\* the component d holds the value next to that of the component c: the
\* number plus one, the next letter, or the next roman numeral up to "xx"
Follows(c, d) ==
    \/ isdigit(c) /\ isdigit(d) /\ ToInt(d) = ToInt(c) + 1
    \/ /\ Len(c) = 1 /\ Len(d) = 1 /\ isalpha(c) /\ isalpha(d)
       /\ LetterOrd(LowerChar(d[1])) = LetterOrd(LowerChar(c[1])) + 1
    \/ \E k \in 1..(Len(roman_order) - 1) :
           roman_order[k] = lower(c) /\ roman_order[k + 1] = lower(d)

\* a marker of component d ends the element of component c: it is of the
\* same level and next in sequence, or of a less nested level
EndsElement(c, d) ==
    \/ _get_marker_level(d) = _get_marker_level(c) /\ Follows(c, d)
    \/ _get_marker_level(d) < _get_marker_level(c)

\* the offsets of the markers behind the marker of the element that end it
EndOffsets(s, c) ==
    {q \in MarkerOffsets(s) :
        /\ q >= _find_marker(s, MarkerOf(c)) + Len(c) + 2
        /\ EndsElement(c, ComponentAt(s, q))}

\* C18: _find_subsection_end returns the offset of the first marker behind
\* the element's own marker that is of the same level and next in sequence
\* or of a less nested level, and the length of the text when there is no
\* such marker; a marker of the same level that is not the next one, and a
\* deeper marker, never end the element.
C18_EndAtNextSiblingOrAncestor ==
    pc = "ended" =>
        /\ extraction = IF EndOffsets(text, subsection) = {} THEN Len(text)
                        ELSE Min(EndOffsets(text, subsection))
        /\ extraction < Len(text) =>
               /\ ComponentAt(text, extraction) # None
               /\ _get_marker_level(ComponentAt(text, extraction)) <= _get_marker_level(subsection)
               /\ _get_marker_level(ComponentAt(text, extraction)) = _get_marker_level(subsection)
                      => Follows(subsection, ComponentAt(text, extraction))

\* behind (A): a (C), a deeper (ii), and then the (B) that ends it
C18_Witness ==
    /\ pc = "ended"
    /\ subsection = <<"A">>
    /\ text = <<"(","A",")"," ","(","C",")"," ","(","i","i",")"," ","(","B",")"," ">>
    /\ extraction = 13

(***************************************************************************)
(* The extractor on texts nested down to clauses: one call of extract on   *)
(* a text where subsection (a) holds paragraph (1), which holds            *)
(* subparagraph (A), which holds the clauses (i) and (ii).                 *)
(***************************************************************************)
\* what an element says behind its marker
ClauseBodies == {<<"x"," ">>, <<"y","."," ">>}

\* what follows clause (ii): nothing, or later elements of the outer levels
ClauseTails ==
    {t1 \o t2 \o t3 : t1 \in {<<>>, <<"(","B",")"," ","z"," ">>}, t2 \in {<<>>, <<"(","2",")"," ","w"," ">>}, t3 \in {<<>>, <<"(","b",")"," ","t",".">>}}

ClauseText(b1, b2, b3, b4, b5, tail) ==
    <<"(","a",")"," ">> \o b1 \o <<"(","1",")"," ">> \o b2 \o <<"(","A",")"," ">> \o b3 \o <<"(","i",")"," ">> \o b4 \o <<"(","i","i",")"," ">> \o b5 \o tail

ClauseTexts ==
    {ClauseText(b1, b2, b3, b4, b5, tail) :
        b1 \in ClauseBodies, b2 \in ClauseBodies, b3 \in ClauseBodies,
        b4 \in ClauseBodies, b5 \in ClauseBodies, tail \in ClauseTails}

\* the address of clause (i), the prefixes of it, and the address of clause (ii)
ClauseAddresses ==
    { <<<<"a">>, <<"1">>, <<"A">>, <<"i">>>>, <<<<"a">>, <<"1">>, <<"A">>, <<"i","i">>>>,
      <<<<"a">>, <<"1">>, <<"A">>>>, <<<<"a">>, <<"1">>>>, <<<<"a">>>> }

InitClause ==
    /\ pc = "start"
    /\ text \in ClauseTexts
    /\ subsection \in {NotationOf(c) : c \in ClauseAddresses}
    /\ extraction = None
    /\ amendment = None
    /\ applied = None
    /\ normalized = <<>>
    /\ parsed = None
    /\ db = None
    /\ utcnow = 0
    /\ requests = None
    /\ response = None

NextClause == Extract

SpecClause == InitClause /\ [][NextClause]_vars

\* C19: nested addressing reaches the level of clauses: on a text in which
\* (a) holds (1), which holds (A), which holds the clauses (i) and (ii),
\* extract at (a)(1)(A)(i) succeeds with the span of clause (i), which ends
\* before "(ii)", and the span extracted at a prefix of the address, (a)(1)
\* or (a)(1)(A), contains the markers of the clauses nested in the element.
C19_ClauseLevelAddressing ==
    (pc = "extracted" /\ text \in ClauseTexts) =>
        /\ subsection = <<"(","a",")","(","1",")","(","A",")","(","i",")">> =>
               /\ extraction.success
               /\ extraction.extracted_text
                      = strip(Slice(text, find(text, <<"(","i",")">>), find(text, <<"(","i","i",")">>)))
        /\ subsection \in {<<"(","a",")","(","1",")">>, <<"(","a",")","(","1",")","(","A",")">>} =>
               /\ extraction.success
               /\ Contains(extraction.extracted_text, <<"(","i",")">>)
               /\ Contains(extraction.extracted_text, <<"(","i","i",")">>)

(***************************************************************************)
(* The applier on a strike through the end: one call of apply on a         *)
(* statute text and a StrikeAndInsert or Strike instruction whose strike   *)
(* text carries the marker "[and all that follows through end]".           *)
(***************************************************************************)
\* the most pieces a statute text of a strike through the end is made of
MaxThroughEndPieces == 5

\* the pieces: the anchor, a period, white space, and elements with markers
ThroughEndPieces == << <<"a">>, <<".">>, <<" ">>, <<"\n">>, <<"(","a",")"," ","z">>, <<"(","1",")"," ","w">> >>

ThroughEndTexts ==
    {Concat([k \in 1..Len(f) |-> ThroughEndPieces[f[k]]]) :
        f \in UNION {[1..n -> DOMAIN ThroughEndPieces] : n \in 0..MaxThroughEndPieces}}

InitThroughEnd ==
    /\ pc = "start"
    /\ text \in ThroughEndTexts
    /\ amendment \in {ThroughEndStrikeInsert(<<"a">>, <<"q">>), ThroughEndStrike(<<"a">>)}
    /\ applied = None
    /\ normalized = <<>>
    /\ subsection = None
    /\ extraction = None
    /\ parsed = None
    /\ db = None
    /\ utcnow = 0
    /\ requests = None
    /\ response = None

NextThroughEnd == Apply

SpecThroughEnd == InitThroughEnd /\ [][NextThroughEnd]_vars

\* the offset of the first character of s at or behind offset p that is no
\* white space, and the length of s when there is none
SkipSpace(s, p) == Min({q \in p..Len(s) : q = Len(s) \/ s[q + 1] \notin SpaceSet})

\* the marker of a subsection or of a paragraph starts at offset q of s
ProvisionMarkerAt(s, q) ==
    /\ ComponentAt(s, q) # None
    /\ \/ isdigit(ComponentAt(s, q))
       \/ Len(ComponentAt(s, q)) = 1 /\ ComponentAt(s, q)[1] \in LowerSet

\* the offsets from p on of the periods of s that end a sentence: behind the
\* period and white space come a newline, the end of the text or a marker
TerminalPeriods(s, p) ==
    {k \in p..(Len(s) - 1) :
        /\ s[k + 1] = "."
        /\ \/ SkipSpace(s, k + 1) = Len(s)
           \/ \E j \in (k + 1)..(SkipSpace(s, k + 1) - 1) : s[j + 1] = "\n"
           \/ ProvisionMarkerAt(s, SkipSpace(s, k + 1))}

\* the text s with what stands from offset a up to offset b replaced by I,
\* the white space on the two sides of the replaced text tidied as apply does
ReplacedSpan(s, a, b, I) == rstrip(Slice(s, 0, a)) \o <<" ">> \o I \o lstrip(SliceFrom(s, b))

\* C20: for a StrikeAndInsert with the marker "[and all that follows through
\* end]" whose anchor occurs in the text, apply removes exactly the text
\* from the first occurrence of the anchor through the nearest following
\* period that ends a sentence (the first period behind the anchor that is
\* followed by a newline, the end of the text or a structural marker), that
\* period included, and puts the insert text in its place; no text behind
\* that period is removed, the white space at the seam aside.
C20_ThroughNearestTerminalPeriod ==
    \A S \in {<<"a">>}, I \in {<<"q">>} :
        (/\ pc = "applied"
         /\ amendment = ThroughEndStrikeInsert(S, I)
         /\ Contains(text, S)
         /\ TerminalPeriods(text, find(text, S) + Len(S)) # {}) =>
            /\ applied[2]
            /\ applied[1] = ReplacedSpan(text, find(text, S),
                                Min(TerminalPeriods(text, find(text, S) + Len(S))) + 1, I)

\* the component of a marker: "(A)" without its parentheses
ComponentOf(marker) == Slice(marker, 1, Len(marker) - 1)

\* the span of the element of the marker as the extractor computes it:
\* from the marker up to the end _find_subsection_end gives
NavigatorStart(s, marker) == _find_marker(s, marker)

NavigatorEnd(s, marker) == _find_subsection_end(s, _find_marker(s, marker), ComponentOf(marker))

\* C21: for a StrikeAndInsert or a Strike whose strike text names one
\* structural element, the span the applier replaces or removes is the
\* span the extractor computes for the element on the same text, from its
\* marker up to the end by the rule of the next sibling or the less nested
\* level; for a StrikeAndInsert the result is the text before the span,
\* the marker followed by the insert text, and the text behind the span.
C21_StructuralSpanIsNavigatorSpan ==
    \A r \in SingleRefs :
        (pc = "applied" /\ Contains(text, r[2])) =>
            /\ amendment = PlainStrikeInsert(r[1], <<"q">>) =>
                   applied = << Slice(text, 0, NavigatorStart(text, r[2])) \o r[2] \o <<" ", "q">>
                                   \o SliceFrom(text, NavigatorEnd(text, r[2])), TRUE >>
            /\ amendment = PlainStrike(r[1]) =>
                   applied = << Slice(text, 0, NavigatorStart(text, r[2]))
                                   \o SliceFrom(text, NavigatorEnd(text, r[2])), TRUE >>

\* the offset where an InsertAfter or InsertBefore on marker M splices
SpliceOffset(s, a) ==
    IF a.amendment_type = INSERT_AFTER
    THEN find(s, a.position_marker) + Len(a.position_marker)
    ELSE find(s, a.position_marker)

\* the text I stands at offset at of s between the blanks l and r, and a
\* whitespace character stands on both of its sides wherever text is there
SplicedApart(res, s, at, I) ==
    \E l \in {<<>>, <<" ">>}, r \in {<<>>, <<" ">>} :
        /\ res = Slice(s, 0, at) \o l \o I \o r \o SliceFrom(s, at)
        /\ at > 0 => (Slice(s, 0, at) \o l)[at + Len(l)] \in SpaceSet
        /\ at < Len(s) => (r \o SliceFrom(s, at))[1] \in SpaceSet

\* C26: a valid InsertAfter (InsertBefore) whose marker occurs in the text
\* succeeds; its result is the text with the insert text spliced right after
\* (before) the first occurrence of the marker, every character of the text
\* kept in order, and whitespace stands between the inserted text and the
\* text on both of its sides.
C26_InsertSplicedApart ==
    \A M \in ApplyAnchors :
        (pc = "applied" /\ amendment \in {InsertAfter(M, <<"q">>), InsertBefore(M, <<"q">>)} /\ Contains(text, M)) =>
            /\ applied[2] = TRUE
            /\ SplicedApart(applied[1], text, SpliceOffset(text, amendment), <<"q">>)

\* the offsets behind offset p of the periods of s
PeriodsFrom(s, p) == {k \in p..(Len(s) - 1) : s[k + 1] = "."}

\* the text s without what stands from offset a up to offset b, with the
\* seam left as it is, trimmed, or trimmed and closed by one blank
RemovedSpan(s, a, b) ==
    { Slice(s, 0, a) \o SliceFrom(s, b),
      rstrip(Slice(s, 0, a)) \o lstrip(SliceFrom(s, b)),
      rstrip(Slice(s, 0, a)) \o <<" ">> \o lstrip(SliceFrom(s, b)) }

\* C28: a Strike whose strike text is 'X [and all that follows through end]'
\* is applicable: on a text where X occurs and a period stands behind it,
\* apply succeeds and removes the text from X through a period that stands
\* behind it.
C28_StrikeThroughEndApplies ==
    \A S \in {<<"a">>} :
        (/\ pc = "applied"
         /\ amendment = ThroughEndStrike(S)
         /\ Contains(text, S)
         /\ PeriodsFrom(text, find(text, S) + Len(S)) # {}) =>
            /\ applied[2] = TRUE
            /\ \E k \in PeriodsFrom(text, find(text, S) + Len(S)) :
                   applied[1] \in RemovedSpan(text, find(text, S), k + 1)

(***************************************************************************)
(* The parser on its own: one call of parse on a context text.  parsed is  *)
(* the AmendmentParseResult of the call.                                   *)
(***************************************************************************)
\* the most pieces a quoted strike text is made of
MaxQuotedPieces == 2

\* the pieces of a quoted strike text: a date, a letter, a blank, a mark
QuotedPieces == << <<"D","e","c","e","m","b","e","r"," ","3","1",","," ","2","0","2","3">>, <<"a">>, <<" ">>, <<";">> >>

\* the quoted strike texts: at least one piece
ParseStrikes ==
    {Concat([k \in 1..Len(f) |-> QuotedPieces[f[k]]]) :
        f \in UNION {[1..n -> DOMAIN QuotedPieces] : n \in 1..MaxQuotedPieces}}

\* the quoted insert texts
ParseInserts == {<<"D","e","c","e","m","b","e","r"," ","3","1",","," ","2","0","2","9">>, <<"b">>, <<","," ","a","n","d"," ">>, <<" ">>}

\* is amended by striking 'X' and inserting 'Y'
StrikeInsertContext(X, Y) ==
    <<"i","s"," ","a","m","e","n","d","e","d"," ","b","y"," ","s","t","r","i","k","i","n","g"," ","'">> \o X
    \o <<"'"," ","a","n","d"," ","i","n","s","e","r","t","i","n","g"," ","'">> \o Y \o <<"'">>

\* sentences that refer to a definition, each matching a DEFINITIONAL_PATTERNS
\* entry: "has the meaning given", "for purposes of", "the term ... means"
DefinitionalSentences ==
    {<<"T","h","e"," ","t","e","r","m"," ","'","e","l","i","g","i","b","l","e"," ","e","n","t","i","t","y","'"," ","h","a","s"," ","t","h","e"," ","m","e","a","n","i","n","g"," ","g","i","v","e","n"," ","i","n"," ","s","e","c","t","i","o","n"," ","5","0","1","(","c",")","(","3",")"," ">>,
     <<"f","o","r"," ","p","u","r","p","o","s","e","s"," ","o","f"," ","t","h","i","s"," ","A","c","t",","," ">>,
     <<"T","h","e"," ","t","e","r","m"," ","'","q","'"," ","m","e","a","n","s"," ","z","."," ">>}

\* sentences that follow a definitional sentence: nothing, and amendments in
\* the phrasings the recognizers accept
AmendmentSentences ==
    {<<>>,
     <<"S","t","r","i","k","e"," ","'","a","'"," ","a","n","d"," ","i","n","s","e","r","t"," ","'","b","'",".">>,
     <<"b","y"," ","d","e","l","e","t","i","n","g"," ","'","a","'">>,
     <<"b","y"," ","d","e","s","i","g","n","a","t","i","n","g"," ","p","a","r","a","g","r","a","p","h"," ","(","1",")"," ","a","s"," ","s","u","b","p","a","r","a","g","r","a","p","h"," ","(","A",")">>,
     <<"r","e","d","e","s","i","g","n","a","t","i","n","g"," ","s","u","b","s","e","c","t","i","o","n"," ","(","c",")"," ","a","s"," ","s","u","b","s","e","c","t","i","o","n"," ","(","d",")">>,
     <<"i","n","s","e","r","t","i","n","g"," ","a","f","t","e","r"," ","'","a","'"," ","t","h","e"," ","f","o","l","l","o","w","i","n","g",":"," ","'","b","'">>,
     <<"S","e","c","t","i","o","n"," ","2"," ","i","s"," ","a","m","e","n","d","e","d"," ","b","y"," ","s","t","r","i","k","i","n","g"," ","'","a","'"," ","a","n","d"," ","i","n","s","e","r","t","i","n","g"," ","'","b","'",".">>,
     <<"b","y"," ","a","d","d","i","n","g"," ","a","t"," ","t","h","e"," ","e","n","d"," ","t","h","e"," ","f","o","l","l","o","w","i","n","g",":"," ","'","c","'">>}

\* a definitional sentence and then an amendment sentence
GuardContexts == {d \o s : d \in DefinitionalSentences, s \in AmendmentSentences}

\* the items of a numbered block, each with and without a target inside it
StrikeAtEndItems ==
    {<<"(","1",")"," ","o","n"," ","s","u","b","p","a","r","a","g","r","a","p","h"," ","(","A",")",","," ","b","y"," ","s","t","r","i","k","i","n","g"," ","\"","a","n","d","\""," ","a","t"," ","t","h","e"," ","e","n","d",";"," ">>,
     <<"(","1",")"," ","b","y"," ","s","t","r","i","k","i","n","g"," ","\"","a","n","d","\""," ","a","t"," ","t","h","e"," ","e","n","d",";"," ">>}

StrikeInsertItems ==
    {<<"(","2",")"," ","o","n"," ","s","u","b","p","a","r","a","g","r","a","p","h"," ","(","B",")",","," ","b","y"," ","s","t","r","i","k","i","n","g"," ","\"","a","\""," ","a","n","d"," ","i","n","s","e","r","t","i","n","g"," ","\"","b","\"",";"," ">>,
     <<"(","2",")"," ","b","y"," ","s","t","r","i","k","i","n","g"," ","\"","a","\""," ","a","n","d"," ","i","n","s","e","r","t","i","n","g"," ","\"","b","\"",";"," ">>}

AddAtEndItems ==
    {<<"(","3",")"," ","o","n"," ","s","u","b","p","a","r","a","g","r","a","p","h"," ","(","C",")",","," ","b","y"," ","a","d","d","i","n","g"," ","a","t"," ","t","h","e"," ","e","n","d"," ","t","h","e"," ","f","o","l","l","o","w","i","n","g",":"," ","\"","c","\"",".">>,
     <<"(","3",")"," ","b","y"," ","a","d","d","i","n","g"," ","a","t"," ","t","h","e"," ","e","n","d"," ","t","h","e"," ","f","o","l","l","o","w","i","n","g",":"," ","\"","c","\"",".">>}

\* is amended-- (1) ... (2) ... (3) ...
NumberedContext(i1, i2, i3) == <<"i","s"," ","a","m","e","n","d","e","d","U2014","\n">> \o i1 \o i2 \o i3

NumberedContexts ==
    {NumberedContext(i1, i2, i3) :
        i1 \in StrikeAtEndItems, i2 \in StrikeInsertItems, i3 \in AddAtEndItems}

\* the elements a context designates, and what it designates them as
DesignatedElements == {<<"p","a","r","a","g","r","a","p","h"," ","(","1",")">>, <<"t","h","e"," ","m","a","t","t","e","r"," ","p","r","e","c","e","d","i","n","g"," ","p","a","r","a","g","r","a","p","h"," ","(","1",")">>}

NewDesignations == {<<"s","u","b","p","a","r","a","g","r","a","p","h"," ","(","A",")">>, <<"s","u","b","s","e","c","t","i","o","n"," ","(","a",")">>}

\* is amended by designating <element> as <element>
DesignateContext(e, n) == <<"i","s"," ","a","m","e","n","d","e","d"," ","b","y"," ","d","e","s","i","g","n","a","t","i","n","g"," ">> \o e \o <<" ","a","s"," ">> \o n

\* is amended by redesignating <element> as <element>
RedesignateContext(e, n) == <<"i","s"," ","a","m","e","n","d","e","d"," ","b","y"," ","r","e","d","e","s","i","g","n","a","t","i","n","g"," ">> \o e \o <<" ","a","s"," ">> \o n

DesignateContexts ==
    {DesignateContext(e, n) : e \in DesignatedElements, n \in NewDesignations}
    \cup {RedesignateContext(<<"p","a","r","a","g","r","a","p","h"," ","(","1",")">>, n) : n \in NewDesignations}

\* ranges of elements, and the ranges they are redesignated as
ElementRanges == {<<"p","a","r","a","g","r","a","p","h","s"," ","(","2",")"," ","t","h","r","o","u","g","h"," ","(","6",")">>, <<"s","u","b","p","a","r","a","g","r","a","p","h","s"," ","(","B",")"," ","t","h","r","o","u","g","h"," ","(","D",")">>}

NewRanges == {<<"p","a","r","a","g","r","a","p","h","s"," ","(","3",")"," ","t","h","r","o","u","g","h"," ","(","7",")">>, <<"s","u","b","p","a","r","a","g","r","a","p","h","s"," ","(","C",")"," ","t","h","r","o","u","g","h"," ","(","E",")">>}

\* is amended by redesignating <range> as <range>
RangeContexts == {RedesignateContext(r, n) : r \in ElementRanges, n \in NewRanges}

\* the position markers and the insert texts of two insertions in one context
InsertMarkers == {<<"a">>, <<"b">>}

InsertTexts == {<<"x">>, <<"y">>}

InsertPositions == {<<"a","f","t","e","r">>, <<"b","e","f","o","r","e">>}

\* by inserting <after|before> 'M' the following: 'I'
InsertPhrase(w, M, I) == <<"b","y"," ","i","n","s","e","r","t","i","n","g"," ">> \o w \o <<" ","'">> \o M \o <<"'"," ","t","h","e"," ","f","o","l","l","o","w","i","n","g",":"," ","'">> \o I \o <<"'">>

\* two insertions at the same side of their markers
TwoInsertsContext(w, M1, I1, M2, I2) == InsertPhrase(w, M1, I1) \o <<" ","a","n","d"," ">> \o InsertPhrase(w, M2, I2)

TwoInsertsContexts ==
    {TwoInsertsContext(w, M1, I1, M2, I2) :
        w \in InsertPositions, M1 \in InsertMarkers, I1 \in InsertTexts,
        M2 \in InsertMarkers, I2 \in InsertTexts}

\* the heads of a context with targeted items: with and without a leading
\* reference to the section
TargetedHeads == {<<"i","s"," ","a","m","e","n","d","e","d","U2014","\n">>, <<"S","e","c","t","i","o","n"," ","1","2","0","4"," ","i","s"," ","a","m","e","n","d","e","d","U2014","\n">>}

\* items that name the element they amend
ItemOnD == <<"(","1",")"," ","o","n"," ","s","u","b","p","a","r","a","g","r","a","p","h"," ","(","D",")",","," ","b","y"," ","s","t","r","i","k","i","n","g"," ","\"","o","r","\""," ","a","t"," ","t","h","e"," ","e","n","d">>

ItemOnE == <<";"," ","(","2",")"," ","o","n"," ","s","u","b","p","a","r","a","g","r","a","p","h"," ","(","E",")",","," ","b","y"," ","s","t","r","i","k","i","n","g"," ","\"","a","\""," ","a","t"," ","t","h","e"," ","e","n","d">>

TargetedContexts == {h \o ItemOnD \o t : h \in TargetedHeads, t \in {<<>>, ItemOnE}}

\* phrases of the categories of the cascade, one instruction each
OrderPhrases ==
    {<<"b","y"," ","s","t","r","i","k","i","n","g"," ","'","c","'">>,
     <<"b","y"," ","s","t","r","i","k","i","n","g"," ","'","x","'"," ","a","n","d"," ","i","n","s","e","r","t","i","n","g"," ","'","y","'">>,
     <<"b","y"," ","i","n","s","e","r","t","i","n","g"," ","a","f","t","e","r"," ","'","a","'"," ","t","h","e"," ","f","o","l","l","o","w","i","n","g",":"," ","'","b","'">>,
     <<"b","y"," ","s","t","r","i","k","i","n","g"," ","s","u","b","p","a","r","a","g","r","a","p","h"," ","(","B",")">>,
     <<"b","y"," ","s","t","r","i","k","i","n","g"," ","'","d","'"," ","a","n","d"," ","a","l","l"," ","t","h","a","t"," ","f","o","l","l","o","w","s"," ","t","h","r","o","u","g","h"," ","t","h","e"," ","p","e","r","i","o","d"," ","a","t"," ","t","h","e"," ","e","n","d">>,
     <<"b","y"," ","r","e","d","e","s","i","g","n","a","t","i","n","g"," ","p","a","r","a","g","r","a","p","h"," ","(","2",")"," ","a","s"," ","p","a","r","a","g","r","a","p","h"," ","(","3",")">>}

\* two phrases of different categories in one context
OrderContexts ==
    {pq[1] \o <<";"," ">> \o pq[2] : pq \in {x \in OrderPhrases \X OrderPhrases : x[1] # x[2]}}

\* striking 'X' each place it appears and inserting 'Y'
EachPlaceContext(X, Y) == <<"s","t","r","i","k","i","n","g"," ","'">> \o X \o <<"'"," ","e","a","c","h"," ","p","l","a","c","e"," ","i","t"," ","a","p","p","e","a","r","s"," ","a","n","d"," ","i","n","s","e","r","t","i","n","g"," ","'">> \o Y \o <<"'">>

EachPlaceContexts == {EachPlaceContext(X, Y) : X \in {<<"a">>, <<"F","Y","2","0","2","3">>}, Y \in {<<"b">>, <<"F","Y","2","0","2","9">>}}

\* the spelled-out punctuation marks, one of them capitalised
PunctuationWords == {<<"p","e","r","i","o","d">>, <<"c","o","m","m","a">>, <<"s","e","m","i","c","o","l","o","n">>, <<"c","o","l","o","n">>, <<"C","o","l","o","n">>}

\* by striking the <word> at the end and inserting '; or'
PunctuationContext(word) == <<"b","y"," ","s","t","r","i","k","i","n","g"," ","t","h","e"," ">> \o word \o <<" ","a","t"," ","t","h","e"," ","e","n","d"," ","a","n","d"," ","i","n","s","e","r","t","i","n","g"," ","'",";"," ","o","r","'">>

PunctuationContexts == {PunctuationContext(w) : w \in PunctuationWords}

\* the context texts given to parse
ParseContexts ==
    {StrikeInsertContext(X, Y) : X \in ParseStrikes, Y \in ParseInserts}
    \cup GuardContexts
    \cup NumberedContexts
    \cup DesignateContexts
    \cup RangeContexts
    \cup TwoInsertsContexts
    \cup TargetedContexts
    \cup OrderContexts
    \cup EachPlaceContexts
    \cup PunctuationContexts

InitParse ==
    /\ pc = "start"
    /\ text \in ParseContexts
    /\ parsed = None
    /\ db = None
    /\ utcnow = 0
    /\ requests = None
    /\ response = None
    /\ amendment = None
    /\ applied = None
    /\ normalized = <<>>
    /\ subsection = None
    /\ extraction = None

Parse ==
    /\ pc = "start"
    /\ parsed' = parse(text)
    /\ pc' = "parsed"
    /\ UNCHANGED <<text, amendment, subsection, normalized, applied, extraction, db, utcnow, requests, response>>

NextParse == Parse

SpecParse == InitParse /\ [][NextParse]_vars

\* C10 as claimed: a context of the form "is amended by striking 'X' and
\* inserting 'Y'" parses with success into exactly one instruction, a
\* StrikeAndInsert with strike text X and insert text Y.
C10_Original ==
    \A X \in ParseStrikes, Y \in ParseInserts :
        (pc = "parsed" /\ text = StrikeInsertContext(X, Y)) =>
            /\ parsed.success
            /\ Len(parsed.amendments) = 1
            /\ parsed.amendments[1].amendment_type = STRIKE_INSERT
            /\ parsed.amendments[1].text_to_strike = X
            /\ parsed.amendments[1].text_to_insert = Y

\* C10 as amended: a context of the form "is amended by striking 'X' and
\* inserting 'Y'" parses with success into exactly one instruction, a
\* StrikeAndInsert whose strike text is X and whose insert text is Y, each
\* without the white space at its two ends.
C10_OneStrikeInsertOfStrippedTexts ==
    \A X \in ParseStrikes, Y \in ParseInserts :
        (pc = "parsed" /\ text = StrikeInsertContext(X, Y)) =>
            /\ parsed.success
            /\ Len(parsed.amendments) = 1
            /\ parsed.amendments[1].amendment_type = STRIKE_INSERT
            /\ parsed.amendments[1].text_to_strike = strip(X)
            /\ parsed.amendments[1].text_to_insert = strip(Y)

C10_Witness ==
    /\ pc = "parsed"
    /\ text = StrikeInsertContext(<<" ","a">>, <<","," ","a","n","d"," ">>)
    /\ parsed.success
    /\ Len(parsed.amendments) = 1
    /\ parsed.amendments[1].text_to_strike = <<"a">>
    /\ parsed.amendments[1].text_to_insert = <<","," ","a","n","d">>

\* the diagnostic of the definitional guard
DefinitionalDiagnostic == <<"T","e","x","t"," ","a","p","p","e","a","r","s"," ","t","o"," ","b","e"," ","a"," ","d","e","f","i","n","i","t","i","o","n","a","l"," ","r","e","f","e","r","e","n","c","e",","," ","n","o","t"," ","a","n"," ","a","m","e","n","d","m","e","n","t">>

\* C11: whenever the normalized text matches a definitional pattern and no
\* amendment-indicator pattern, parse short-circuits whatever else the text
\* contains: success is false, the list of instructions is empty and the
\* diagnostic is the definitional-reference one.
C11_DefinitionalShortCircuit ==
    (/\ pc = "parsed"
     /\ AnySearch(DEFINITIONAL_PATTERNS, normalize_quotes(text))
     /\ ~AnySearch(AMENDMENT_INDICATOR_PATTERNS, normalize_quotes(text))) =>
        /\ ~parsed.success
        /\ parsed.amendments = <<>>
        /\ parsed.error_message = DefinitionalDiagnostic

\* a definitional sentence followed by a sentence that parses on its own
C11_Witness ==
    /\ pc = "parsed"
    /\ text = <<"f","o","r"," ","p","u","r","p","o","s","e","s"," ","o","f"," ","t","h","i","s"," ","A","c","t",","," ">> \o <<"S","t","r","i","k","e"," ","'","a","'"," ","a","n","d"," ","i","n","s","e","r","t"," ","'","b","'",".">>
    /\ AnySearch(DEFINITIONAL_PATTERNS, normalize_quotes(text))
    /\ ~AnySearch(AMENDMENT_INDICATOR_PATTERNS, normalize_quotes(text))
    /\ parse(<<"S","t","r","i","k","e"," ","'","a","'"," ","a","n","d"," ","i","n","s","e","r","t"," ","'","b","'",".">>).success
    /\ ~parsed.success
    /\ parsed.amendments = <<>>
    /\ parsed.error_message = DefinitionalDiagnostic

\* the instruction a is the instruction b, but for the target section and the
\* raw text, which depend on the text around the sentence
SameInstruction(a, b) ==
    /\ a.amendment_type = b.amendment_type
    /\ a.text_to_strike = b.text_to_strike
    /\ a.text_to_insert = b.text_to_insert
    /\ a.position_marker = b.position_marker

\* the instructions of the result r are among the instructions of the result q
Includes(q, r) ==
    \A i \in DOMAIN r.amendments : \E j \in DOMAIN q.amendments :
        SameInstruction(r.amendments[i], q.amendments[j])

\* C12: the definitional guard never suppresses a genuine amendment: for a
\* context made of a definitional sentence and a separate amendment sentence
\* that parse recognises on its own, parse returns success and its list
\* includes the amendment of that sentence.
C12_GuardKeepsAmendment ==
    \A d \in DefinitionalSentences, s \in AmendmentSentences :
        (/\ pc = "parsed"
         /\ text = d \o s
         /\ s # <<>>
         /\ parse(s).success) =>
            /\ parsed.success
            /\ Includes(parsed, parse(s))

\* the kinds of the instructions of a result
KindsOf(r) == {r.amendments[k].amendment_type : k \in DOMAIN r.amendments}

\* C13: a numbered block "is amended-- (1) ... (2) ... (3) ..." whose items
\* are a strike at the end, a strike-and-insert and an add at the end, each
\* with or without a target inside the item, parses into exactly three
\* distinct instructions, one per item: a Strike, a StrikeAndInsert and an
\* AddAtEnd.
C13_ThreeItemsThreeInstructions ==
    (pc = "parsed" /\ text \in NumberedContexts) =>
        /\ parsed.success
        /\ Len(parsed.amendments) = 3
        /\ KindsOf(parsed) = {STRIKE, STRIKE_INSERT, ADD_AT_END}

\* the kind the tests name AmendmentType.DESIGNATE; AmendmentType has no
\* such member
DESIGNATE == "designate"

\* C14: a context "is amended by designating <element> as <element>" parses
\* with success into at least one instruction of kind Designate whose strike
\* field is the designated element, so that it contains "matter" where the
\* matter preceding a paragraph is designated; a "redesignating" context
\* yields a Redesignate instruction.
C14_DesignateRecognised ==
    \A e \in DesignatedElements, n \in NewDesignations :
        /\ (pc = "parsed" /\ text = DesignateContext(e, n)) =>
               /\ parsed.success
               /\ \E k \in DOMAIN parsed.amendments :
                      /\ parsed.amendments[k].amendment_type = DESIGNATE
                      /\ parsed.amendments[k].text_to_strike = e
        /\ (pc = "parsed" /\ text = RedesignateContext(e, n)) =>
               /\ parsed.success
               /\ \E k \in DOMAIN parsed.amendments :
                      parsed.amendments[k].amendment_type = REDESIGNATE

\* C15: a context "is amended by redesignating paragraphs (m) through (n) as
\* paragraphs (p) through (q)", and likewise for subparagraphs, parses with
\* success into at least one Redesignate instruction whose strike field is
\* the whole range, "through" included.
C15_RangeRedesignated ==
    \A r \in ElementRanges, n \in NewRanges :
        (pc = "parsed" /\ text = RedesignateContext(r, n)) =>
            /\ parsed.success
            /\ \E k \in DOMAIN parsed.amendments :
                   /\ parsed.amendments[k].amendment_type = REDESIGNATE
                   /\ parsed.amendments[k].text_to_strike = r

\* the kind of an insertion after or before a marker
InsertKind(w) == IF w = <<"a","f","t","e","r">> THEN INSERT_AFTER ELSE INSERT_BEFORE

\* the result r has the insertion of I at the marker M
HasInsertion(r, w, M, I) ==
    \E k \in DOMAIN r.amendments :
        /\ r.amendments[k].amendment_type = InsertKind(w)
        /\ r.amendments[k].position_marker = M
        /\ r.amendments[k].text_to_insert = I

\* C16: deduplication drops an instruction only when an identical one is
\* retained: of two insertions after (or before) markers, both are in the
\* result when they differ in the position marker or in the insert text, and
\* one is in the result when they are the same.
C16_DistinctInstructionsKept ==
    \A w \in InsertPositions, M1 \in InsertMarkers, I1 \in InsertTexts, M2 \in InsertMarkers, I2 \in InsertTexts :
        (pc = "parsed" /\ text = TwoInsertsContext(w, M1, I1, M2, I2)) =>
            /\ HasInsertion(parsed, w, M1, I1)
            /\ HasInsertion(parsed, w, M2, I2)
            /\ Len(parsed.amendments) = IF M1 = M2 /\ I1 = I2 THEN 1 ELSE 2

\* the result r has a Strike of the text S whose target is the element T
HasStrikeOn(r, S, T) ==
    \E k \in DOMAIN r.amendments :
        /\ r.amendments[k].amendment_type = STRIKE
        /\ r.amendments[k].text_to_strike = S
        /\ r.amendments[k].target_section = T

\* C22: the structural target named inside a numbered item ("on
\* subparagraph (D), by striking ...") is the target of the instruction
\* derived from the item in the result: no other reference of the context,
\* such as a leading "Section 1204", takes its place, and two instructions
\* of one context that name different elements have different targets.
C22_ItemTargetKept ==
    (pc = "parsed" /\ text \in TargetedContexts) =>
        /\ HasStrikeOn(parsed, <<"o","r">>, <<"s","u","b","p","a","r","a","g","r","a","p","h"," ","(","D",")">>)
        /\ Contains(text, ItemOnE) => HasStrikeOn(parsed, <<"a">>, <<"s","u","b","p","a","r","a","g","r","a","p","h"," ","(","E",")">>)

\* the place of the category of an instruction in the priority order
CategoryRank(a) ==
    CASE a.amendment_type = STRIKE_INSERT -> 1
      [] a.amendment_type \in {INSERT_AFTER, INSERT_BEFORE} -> 2
      [] a.amendment_type = READ_AS_FOLLOWS -> 3
      [] a.amendment_type \in {ADD_AT_END, ADD_AT_BEGINNING} -> 4
      [] a.amendment_type = STRIKE -> 5
      [] OTHER -> 6

\* C23: the instructions the cascade contributes to a result stand in the
\* order of their categories: every StrikeAndInsert before every InsertAfter
\* or InsertBefore, these before every ReadAsFollows, then AddAtEnd and
\* AddAtBeginning, then every Strike, then Redesignate; no Strike stands
\* before an InsertAfter, ReadAsFollows or AddAtEnd of the same text.
C23_CategoryOrder ==
    (pc = "parsed" /\ text \in OrderContexts \cup EachPlaceContexts) =>
        \A i \in DOMAIN parsed.amendments, j \in DOMAIN parsed.amendments :
            i < j => CategoryRank(parsed.amendments[i]) <= CategoryRank(parsed.amendments[j])

\* C24: for a context "striking 'X' each place it appears and inserting
\* 'Y'" the first valid instruction of the result is a StrikeAndInsert with
\* the each-place marker on X and the insert text Y; no Strike of X that
\* would delete the occurrences stands before it.
C24_EachPlaceInsertFirst ==
    \A X \in {<<"a">>, <<"F","Y","2","0","2","3">>}, Y \in {<<"b">>, <<"F","Y","2","0","2","9">>} :
        (pc = "parsed" /\ text = EachPlaceContext(X, Y)) =>
            /\ \E k \in DOMAIN parsed.amendments : is_valid(parsed.amendments[k])
            /\ LET first == Min({k \in DOMAIN parsed.amendments : is_valid(parsed.amendments[k])})
               IN  parsed.amendments[first] = [EachPlaceStrikeInsert(X, Y) EXCEPT
                       !.raw_instruction = parsed.amendments[first].raw_instruction,
                       !.target_section = parsed.amendments[first].target_section]


\* the character a spelled-out punctuation word stands for
PunctuationOf(word) ==
    CASE lower(word) = <<"p","e","r","i","o","d">> -> <<".">>
      [] lower(word) = <<"c","o","m","m","a">> -> <<",">>
      [] lower(word) = <<"s","e","m","i","c","o","l","o","n">> -> <<";">>
      [] lower(word) = <<"c","o","l","o","n">> -> <<":">>

\* C25: the generic recognizer of "by striking the <word> at the end and
\* inserting '; or'" maps each of the four punctuation words, in any letter
\* case, to its character: the outcome holds a StrikeAndInsert, and every
\* StrikeAndInsert of the outcome strikes the character and inserts '; or'.
C25_FourPunctuationWords ==
    \A w \in PunctuationWords :
        (pc = "parsed" /\ text = PunctuationContext(w)) =>
            /\ \E k \in DOMAIN parsed.amendments : parsed.amendments[k].amendment_type = STRIKE_INSERT
            /\ \A k \in DOMAIN parsed.amendments :
                   parsed.amendments[k].amendment_type = STRIKE_INSERT =>
                       /\ parsed.amendments[k].text_to_strike = PunctuationOf(w)
                       /\ parsed.amendments[k].text_to_insert = <<";"," ","o","r">>


(***************************************************************************)
(* The statute cache (api/v1/citations.py, models/statute.py): requests    *)
(* POST /citations/{id}/fetch-statute on a database of citations and       *)
(* cached statutes.  utcnow is the clock, in days.  db.citations maps the  *)
(* id of a citation to its row, db.statutes maps the unique key            *)
(* (citation_type, title, section) of every cached statute to its row,     *)
(* and the key stands for the id of the row.  response is what the last    *)
(* request returned.                                                       *)
(***************************************************************************)
\* timedelta(days=7) of Statute.expires_at
CacheDays == 7

\* the last day of the clock
MaxDay == 9

\* the citations of the database: two of the same section, one of another
FetchCitationIds == {"c1", "c2", "c3"}

\* an id no citation has
UnknownCitationId == "c0"

CitationKey(id) == IF id = "c3" THEN <<"cfr", 40, "60">> ELSE <<"usc", 42, "1395">>

\* the placeholder text, heading, source and link of a statute, by its type
FetchedContent(key) ==
    CASE key[1] = "usc" ->
             [full_text |-> <<"Placeholder", key[2], "U.S.C.", key[3]>>, heading |-> <<"Section", key[3]>>,
              source |-> "govinfo", source_url |-> <<"https://www.govinfo.gov/link/uscode", key[2], key[3]>>]
      [] key[1] = "cfr" ->
             [full_text |-> <<"Placeholder", key[2], "C.F.R.", key[3]>>, heading |-> <<"Section", key[3]>>,
              source |-> "ecfr", source_url |-> <<"https://www.ecfr.gov/current", key[2], key[3]>>]
      [] OTHER ->
             [full_text |-> <<"Public Law", key[2], key[3]>>, heading |-> <<"Public Law", key[2], key[3]>>,
              source |-> "manual", source_url |-> None]

\* Statute(...): the row of a statute created on day now
Statute(key, now) ==
    [full_text |-> FetchedContent(key).full_text, heading |-> FetchedContent(key).heading,
     source |-> FetchedContent(key).source, source_url |-> FetchedContent(key).source_url,
     fetched_at |-> now, expires_at |-> now + CacheDays]

\* an existing row with the four columns a refresh assigns
UpdatedStatute(existing, key) ==
    [existing EXCEPT !.full_text = FetchedContent(key).full_text, !.heading = FetchedContent(key).heading,
                     !.source = FetchedContent(key).source, !.source_url = FetchedContent(key).source_url]

\* Statute.is_expired
is_expired(statute, now) == now > statute.expires_at

CACHED_MESSAGE == "Statute retrieved from cache"

FETCHED_MESSAGE == "Statute fetched successfully (placeholder - API integration pending)"

CitationFetchResponse(id, heading, message) ==
    [status_code |-> 200, citation_id |-> id, statute_fetched |-> TRUE, statute_heading |-> heading, message |-> message]

NotFound(detail) == [status_code |-> 404, detail |-> detail]

\* citation.statute_id = statute.id; citation.statute_fetched = True
LinkedCitations(id) ==
    [db.citations EXCEPT ![id] = [statute_id |-> CitationKey(id), statute_fetched |-> TRUE]]

\* existing_statute is a row
Cached(key) == key \in DOMAIN db.statutes

\* fetch_statute_for_citation on the citation id of a row, key its key
FetchStatuteFor(id, key) ==
    IF Cached(key) /\ ~is_expired(db.statutes[key], utcnow) THEN
        /\ db' = [db EXCEPT !.citations = LinkedCitations(id)]
        /\ response' = CitationFetchResponse(id, db.statutes[key].heading, CACHED_MESSAGE)
    ELSE
        /\ db' = [citations |-> LinkedCitations(id),
                  statutes |-> IF Cached(key)
                               THEN [db.statutes EXCEPT ![key] = UpdatedStatute(db.statutes[key], key)]
                               ELSE db.statutes @@ (key :> Statute(key, utcnow))]
        /\ response' = CitationFetchResponse(id, FetchedContent(key).heading, FETCHED_MESSAGE)

InitFetch ==
    /\ pc = "start"
    /\ text = <<>>
    /\ amendment = None
    /\ subsection = None
    /\ normalized = <<>>
    /\ applied = None
    /\ extraction = None
    /\ parsed = None
    /\ db = [citations |-> [id \in FetchCitationIds |-> [statute_id |-> None, statute_fetched |-> FALSE]],
             statutes |-> << >>]
    /\ utcnow = 0
    /\ requests = None
    /\ response = None

\* POST /citations/{citation_id}/fetch-statute
FetchStatute ==
    /\ \E id \in FetchCitationIds \cup {UnknownCitationId} :
           IF id \notin DOMAIN db.citations
           THEN response' = NotFound("Citation not found") /\ UNCHANGED db
           ELSE FetchStatuteFor(id, CitationKey(id))
    /\ UNCHANGED <<pc, text, amendment, subsection, normalized, applied, extraction, parsed, utcnow, requests>>

\* a day passes
Tick ==
    /\ utcnow < MaxDay
    /\ utcnow' = utcnow + 1
    /\ UNCHANGED <<pc, text, amendment, subsection, normalized, applied, extraction, parsed, db, requests, response>>

NextFetch == FetchStatute \/ Tick

SpecFetch == InitFetch /\ [][NextFetch]_vars

\* the step is a request on the citation id that refreshes the expired row
\* of its statute
RefreshesExpired(id) ==
    /\ utcnow' = utcnow
    /\ Cached(CitationKey(id))
    /\ is_expired(db.statutes[CitationKey(id)], utcnow)
    /\ response' = CitationFetchResponse(id, FetchedContent(CitationKey(id)).heading, FETCHED_MESSAGE)

\* C29: when a request has refreshed the expired row of a statute, the row
\* is not expired any more, so that the next request on the same key is
\* answered from the cache.
C29_RefreshedStatuteNotExpired ==
    [][\A id \in FetchCitationIds :
          RefreshesExpired(id) => ~is_expired(db'.statutes[CitationKey(id)], utcnow')]_vars


(***************************************************************************)
(* The comparisons of a document (api/v1/comparisons.py): the requests     *)
(* POST /documents/{id}/compare on one document.  db.document is the row   *)
(* of the document with the ids of its citations, db.citations and         *)
(* db.statutes are their rows, db.comparisons is the set of the rows of    *)
(* the comparisons.  requests[r] is the request r in flight: where it      *)
(* stands (pc), how often it ran, its parameter force_refresh, the         *)
(* document as it has loaded it, the citation it is at, the rows it has    *)
(* added and the rows it has deleted; response[r] is what it returned      *)
(* last.  A request stands still where the handler awaits the database;    *)
(* what it adds and deletes shows in db when it commits.                   *)
(***************************************************************************)
\* DocumentStatus
PARSED == "parsed"

PROCESSING == "processing"

COMPLETED == "completed"

\* r'(\([^)]+\))+'
SUBSECTION_NOTATION_PATTERN ==
    Plus(Group(1, Cat(<<Lit(<<"(">>, FALSE), Plus(NotIn({")"}, FALSE)), Lit(<<")">>, FALSE)>>)))

\* r'\(([A-Za-z0-9]+)\)'
TARGET_NOTATION_PATTERN ==
    Cat(<<Lit(<<"(">>, FALSE), Group(1, Plus(In(LowerSet \cup UpperSet \cup DigitSet, FALSE))), Lit(<<")">>, FALSE)>>)

\* the match m of re on s, as match.group(0), and "" when there is none
Group0Or(m, s) == IF m.ok THEN group0(m, s) ELSE <<>>

_extract_subsection_notation(section) == Group0Or(search(SUBSECTION_NOTATION_PATTERN, section), section)

\* (extracted_text, notation, True) when the extraction has a text
ExtractedOr(result, notation, otherwise) ==
    IF result.success /\ Len(result.extracted_text) > 0
    THEN <<result.extracted_text, notation, TRUE>>
    ELSE otherwise

\* _get_target_text_for_amendment from the citation's notation on
TargetOfCitation(full_statute_text, subsection_notation) ==
    IF Len(subsection_notation) > 0
    THEN ExtractedOr(extract(full_statute_text, subsection_notation), subsection_notation,
                     <<full_statute_text, <<>>, FALSE>>)
    ELSE <<full_statute_text, <<>>, FALSE>>

\* _get_target_text_for_amendment with the match of the target's notation
TargetOfMatch(full_statute_text, section, target_section, target_match) ==
    IF target_match.ok
    THEN ExtractedOr(extract(full_statute_text, <<"(">> \o group(target_match, target_section, 1) \o <<")">>),
                     <<"(">> \o group(target_match, target_section, 1) \o <<")">>,
                     TargetOfCitation(full_statute_text, _extract_subsection_notation(section)))
    ELSE TargetOfCitation(full_statute_text, _extract_subsection_notation(section))

\* _get_target_text_for_amendment: <<target_text, subsection_notation, is_subsection>>
_get_target_text_for_amendment(full_statute_text, section, parsed_amendment) ==
    IF Truthy(parsed_amendment.target_section)
    THEN TargetOfMatch(full_statute_text, section, parsed_amendment.target_section,
                       search(TARGET_NOTATION_PATTERN, parsed_amendment.target_section))
    ELSE TargetOfCitation(full_statute_text, _extract_subsection_notation(section))

\* _map_amendment_type
_map_amendment_type(parsed_type) ==
    CASE parsed_type = INSERT_BEFORE -> INSERT_AFTER
      [] parsed_type = ADD_AT_BEGINNING -> ADD_AT_END
      [] parsed_type = REDESIGNATE -> STRIKE_INSERT
      [] OTHER -> parsed_type

\* _detect_amendment_type of comparisons.py
_detect_amendment_type(context_lower) ==
    IF Contains(context_lower, <<"s","t","r","i","k","i","n","g">>) /\ Contains(context_lower, <<"i","n","s","e","r","t","i","n","g">>) THEN STRIKE_INSERT
    ELSE IF Contains(context_lower, <<"i","n","s","e","r","t","i","n","g"," ","a","f","t","e","r">>) THEN INSERT_AFTER
    ELSE IF Contains(context_lower, <<"r","e","a","d"," ","a","s"," ","f","o","l","l","o","w","s">>) THEN READ_AS_FOLLOWS
    ELSE IF Contains(context_lower, <<"a","d","d","i","n","g"," ","a","t"," ","t","h","e"," ","e","n","d">>) THEN ADD_AT_END
    ELSE IF Contains(context_lower, <<"s","t","r","i","k","i","n","g">>) THEN STRIKE
    ELSE UNKNOWN

\* what generate_comparisons stores of a citation: the columns of Comparison
\* but citation_text and diff_html, which are made of these for display
ComparisonColumns(type, instruction, original_text, amended_text) ==
    [amendment_type |-> type, amendment_instruction |-> instruction,
     original_text |-> original_text, amended_text |-> amended_text]

\* amendment_instruction[:500] if amendment_instruction else None
InstructionColumn(amendment_instruction) ==
    IF Len(amendment_instruction) > 0 THEN Slice(amendment_instruction, 0, 500) ELSE None

DEFINITIONAL_INSTRUCTION == <<"(","D","e","f","i","n","i","t","i","o","n","a","l"," ","r","e","f","e","r","e","n","c","e"," ","-"," ","n","o"," ","a","m","e","n","d","m","e","n","t",")">>

\* lines 208-216: the texts stored after apply returned result on target
AppliedColumns(parsed_amendment, full_statute_text, target, result) ==
    ComparisonColumns(_map_amendment_type(parsed_amendment.amendment_type),
                      InstructionColumn(parsed_amendment.raw_instruction),
                      IF result[2] THEN target[1] ELSE full_statute_text,
                      IF result[2] THEN result[1] ELSE full_statute_text)

\* lines 196-206: the target of the instruction and apply on it
ApplyFirstValid(parsed_amendment, full_statute_text, target) ==
    AppliedColumns(parsed_amendment, full_statute_text, target, apply(target[1], parsed_amendment))

\* the indices of the valid instructions of a parse result
ValidIndices(amendments) == {k \in DOMAIN amendments : is_valid(amendments[k])}

\* lines 187-221: the first valid instruction is applied, if there is one
ColumnsOfAmendments(amendments, full_statute_text, section) ==
    IF ValidIndices(amendments) # {}
    THEN ApplyFirstValid(amendments[Min(ValidIndices(amendments))], full_statute_text,
             _get_target_text_for_amendment(full_statute_text, section, amendments[Min(ValidIndices(amendments))]))
    ELSE ComparisonColumns(UNKNOWN, None, full_statute_text, full_statute_text)

\* lines 223-239: no instruction parsed; the citation's subsection is shown
ColumnsOfKeywords(context_text, target) ==
    ComparisonColumns(_detect_amendment_type(lower(context_text)), None, target[1], target[1])

\* lines 178-239, given the parse result
ColumnsOfParse(parse_result, context_text, full_statute_text, section) ==
    IF parse_result.success /\ Len(parse_result.amendments) > 0
    THEN ColumnsOfAmendments(parse_result.amendments, full_statute_text, section)
    ELSE ColumnsOfKeywords(context_text, TargetOfCitation(full_statute_text, _extract_subsection_notation(section)))

\* lines 156-264: the comparison of one citation with its statute
ComparisonOfCitation(context_text, full_statute_text, section) ==
    IF is_definitional_reference(context_text) /\ ~is_amendment_context(context_text)
    THEN ComparisonColumns(UNKNOWN, DEFINITIONAL_INSTRUCTION,
                           Slice(full_statute_text, 0, 2000), Slice(full_statute_text, 0, 2000))
    ELSE ColumnsOfParse(parse(context_text), context_text, full_statute_text, section)

\* Comparison(document_id=..., citation_id=..., ...): a new row; the pair
\* of the request and its run stands for the fresh uuid
Comparison(id, citation_id, columns) ==
    [id |-> id, citation_id |-> citation_id, amendment_type |-> columns.amendment_type,
     amendment_instruction |-> columns.amendment_instruction,
     original_text |-> columns.original_text, amended_text |-> columns.amended_text]


\* the most requests one client sends one after the other
MaxRuns == 2

DocumentId == "d1"

\* an id no document has
UnknownDocumentId == "d0"

\* the statute of the citations
STATUTE_TEXT == <<"(","a",")"," ","x",".","\n","(","b",")"," ","y",".">>

\* the context texts of a citation: instructions that apply and that fail,
\* one that is not valid, one with a target of its own, a definition and a
\* text without an instruction
CompareContexts ==
    {<<"b","y"," ","s","t","r","i","k","i","n","g"," ","'","x","'"," ","a","n","d"," ","i","n","s","e","r","t","i","n","g"," ","'","q","'">>,
     <<"b","y"," ","s","t","r","i","k","i","n","g"," ","'","z","z","'"," ","a","n","d"," ","i","n","s","e","r","t","i","n","g"," ","'","q","'">>,
     <<"i","n"," ","s","e","c","t","i","o","n"," ","5","(","b",")",","," ","b","y"," ","s","t","r","i","k","i","n","g"," ","'","y","'"," ","a","n","d"," ","i","n","s","e","r","t","i","n","g"," ","'","q","'">>,
     <<"i","n"," ","s","e","c","t","i","o","n"," ","5","(","b",")",","," ","b","y"," ","s","t","r","i","k","i","n","g"," ","'","z","z","'"," ","a","n","d"," ","i","n","s","e","r","t","i","n","g"," ","'","q","'">>,
     <<"b","y"," ","r","e","d","e","s","i","g","n","a","t","i","n","g"," ","p","a","r","a","g","r","a","p","h"," ","(","2",")"," ","a","s"," ","p","a","r","a","g","r","a","p","h"," ","(","3",")">>,
     <<"T","h","e"," ","t","e","r","m"," ","'","q","'"," ","m","e","a","n","s"," ","z","."," ">>,
     <<"b","y"," ","a","m","e","n","d","i","n","g"," ","i","t">>}

\* Citation.section, without and with a subsection
CompareSections == {<<"5","0","1">>, <<"1","9","2","2","(","a",")">>}

\* the row of a citation
CitationRow(context_text, section, statute_fetched) ==
    [context_text |-> context_text, section |-> section, statute_id |-> "s1", statute_fetched |-> statute_fetched]

\* the database of a parsed document with the citations rows, no comparison yet
ParsedDocument(rows) ==
    [document |-> [id |-> DocumentId, status |-> PARSED, citations |-> [k \in DOMAIN rows |-> k]],
     citations |-> rows,
     statutes |-> [s \in {"s1"} |-> [full_text |-> STATUTE_TEXT]],
     comparisons |-> {}]

\* a client that has sent nothing yet
NoRequest ==
    [pc |-> "idle", runs |-> 0, force_refresh |-> FALSE,
     document |-> [status |-> PARSED, citations |-> <<>>, comparisons |-> {}],
     i |-> 1, added |-> {}, deleted |-> {}]

NoResponse == [status_code |-> 0]

\* the handler returns resp to the client r
Return(r, resp) ==
    /\ requests' = [requests EXCEPT ![r] = [NoRequest EXCEPT !.runs = requests[r].runs + 1]]
    /\ response' = [response EXCEPT ![r] = resp]

HTTPException(status_code, detail) == [status_code |-> status_code, detail |-> detail]

\* select(Document).options(selectinload(...)): the document with its
\* citations and its comparisons
LoadedDocument ==
    [status |-> db.document.status, citations |-> db.document.citations, comparisons |-> db.comparisons]

\* the citations of the document whose statute is not fetched
Unfetched(document) ==
    {k \in DOMAIN document.citations : ~db.citations[document.citations[k]].statute_fetched}

\* lines 105-140, the document loaded: the checks, up to the next await
Checked(r, force_refresh, document) ==
    IF document.status \notin {PARSED, COMPLETED}
    THEN Return(r, HTTPException(400, "Document must be parsed before comparison")) /\ UNCHANGED db
    ELSE IF Unfetched(document) # {}
    THEN Return(r, HTTPException(400, <<Cardinality(Unfetched(document)), "citation(s) need statute text fetched first">>)) /\ UNCHANGED db
    ELSE IF force_refresh /\ document.comparisons # {}
    THEN /\ requests' = [requests EXCEPT ![r].pc = "flush", ![r].force_refresh = force_refresh,
                                         ![r].document = document, ![r].deleted = document.comparisons]
         /\ UNCHANGED <<db, response>>
    ELSE IF document.comparisons # {} /\ ~force_refresh
    THEN /\ Return(r, [status_code |-> 200, message |-> "Comparisons already exist",
                       comparisons_count |-> Cardinality(document.comparisons)])
         /\ UNCHANGED db
    ELSE /\ requests' = [requests EXCEPT ![r].pc = "commit", ![r].force_refresh = force_refresh,
                                         ![r].document = document]
         /\ UNCHANGED <<db, response>>

\* POST /documents/{document_id}/compare arrives and the document is loaded
Load ==
    \E r \in DOMAIN requests :
        /\ requests[r].pc = "idle"
        /\ requests[r].runs < MaxRuns
        /\ \E document_id \in {DocumentId, UnknownDocumentId}, force_refresh \in BOOLEAN :
               IF document_id # db.document.id
               THEN Return(r, HTTPException(404, "Document not found")) /\ UNCHANGED db
               ELSE Checked(r, force_refresh, LoadedDocument)
        /\ UNCHANGED <<pc, text, amendment, subsection, normalized, applied, extraction, parsed, utcnow>>

\* await db.flush(): the DELETEs of the loaded comparisons are sent
Flush ==
    \E r \in DOMAIN requests :
        /\ requests[r].pc = "flush"
        /\ requests' = [requests EXCEPT ![r].pc = "commit"]
        /\ UNCHANGED <<pc, text, amendment, subsection, normalized, applied, extraction, parsed, db, utcnow, response>>

\* document.status = PROCESSING; await db.commit()
CommitProcessing ==
    \E r \in DOMAIN requests :
        /\ requests[r].pc = "commit"
        /\ db' = [db EXCEPT !.document.status = PROCESSING, !.comparisons = @ \ requests[r].deleted]
        /\ requests' = [requests EXCEPT ![r].pc = "citations", ![r].i = 1, ![r].added = {}]
        /\ UNCHANGED <<pc, text, amendment, subsection, normalized, applied, extraction, parsed, utcnow, response>>

\* the row the request r adds for the citation of id citation_id
AddedComparison(r, citation_id, citation) ==
    Comparison(<<r, requests[r].runs, citation_id>>, citation_id,
               ComparisonOfCitation(citation.context_text, db.statutes[citation.statute_id].full_text, citation.section))

\* one turn of the loop over document.citations: the statute is selected
\* and the comparison of the citation is added to the session
CompareCitation ==
    \E r \in DOMAIN requests :
        /\ requests[r].pc = "citations"
        /\ requests[r].i <= Len(requests[r].document.citations)
        /\ requests' = [requests EXCEPT
               ![r].i = @ + 1,
               ![r].added = IF db.citations[requests[r].document.citations[requests[r].i]].statute_id \in DOMAIN db.statutes
                            THEN @ \cup {AddedComparison(r, requests[r].document.citations[requests[r].i],
                                                         db.citations[requests[r].document.citations[requests[r].i]])}
                            ELSE @]
        /\ UNCHANGED <<pc, text, amendment, subsection, normalized, applied, extraction, parsed, db, utcnow, response>>

\* document.status = COMPLETED; await db.commit(); the message is returned
CommitCompleted ==
    \E r \in DOMAIN requests :
        /\ requests[r].pc = "citations"
        /\ requests[r].i > Len(requests[r].document.citations)
        /\ db' = [db EXCEPT !.document.status = COMPLETED, !.comparisons = @ \cup requests[r].added]
        /\ Return(r, [status_code |-> 200, message |-> "Generated comparisons",
                      comparisons_count |-> Cardinality(requests[r].added)])
        /\ UNCHANGED <<pc, text, amendment, subsection, normalized, applied, extraction, parsed, utcnow>>

\* one client, and a document of one citation
InitCompare ==
    /\ pc = "start"
    /\ text = <<>>
    /\ amendment = None
    /\ subsection = None
    /\ normalized = <<>>
    /\ applied = None
    /\ extraction = None
    /\ parsed = None
    /\ \E c \in CompareContexts, s \in CompareSections, f \in BOOLEAN : db = ParsedDocument(<<CitationRow(c, s, f)>>)
    /\ utcnow = 0
    /\ requests = [r \in {1} |-> NoRequest]
    /\ response = [r \in {1} |-> NoResponse]

NextCompare == Load \/ Flush \/ CommitProcessing \/ CompareCitation \/ CommitCompleted

SpecCompare == InitCompare /\ [][NextCompare]_vars


\* the context text of a citation gives a parsed, valid instruction
HasValidInstruction(context_text) ==
    /\ ~(is_definitional_reference(context_text) /\ ~is_amendment_context(context_text))
    /\ parse(context_text).success
    /\ ValidIndices(parse(context_text).amendments) # {}

\* the input and the output of apply of the instruction on the target
ApplyPair(parsed_amendment, target) == <<target[1], apply(target[1], parsed_amendment)[1]>>

\* the pair of the one call of apply for a citation: the first valid
\* instruction on the scope resolved for it
ApplyPairOfFirstValid(amendments, full_statute_text, section) ==
    ApplyPair(amendments[Min(ValidIndices(amendments))],
              _get_target_text_for_amendment(full_statute_text, section, amendments[Min(ValidIndices(amendments))]))

ApplyPairOfCitation(citation) ==
    ApplyPairOfFirstValid(parse(citation.context_text).amendments, db.statutes[citation.statute_id].full_text, citation.section)

\* C27: every comparison stored for a citation whose context gives a valid
\* instruction holds as (original_text, amended_text) the input and the
\* output of the one call of apply, that of the first valid instruction on
\* the resolved scope (the extracted sub-span when there is one, else the
\* whole section), whether apply succeeded or failed.
C27_StoredPairIsApplyPair ==
    \A row \in db.comparisons :
        HasValidInstruction(db.citations[row.citation_id].context_text) =>
            <<row.original_text, row.amended_text>> = ApplyPairOfCitation(db.citations[row.citation_id])


(***************************************************************************)
(* Two clients that send their compare requests on the same document of    *)
(* two citations at the same time; the steps of their requests interleave  *)
(* where the handler awaits the database.                                  *)
(***************************************************************************)
RaceCitations ==
    << CitationRow(<<"b","y"," ","s","t","r","i","k","i","n","g"," ","'","x","'"," ","a","n","d"," ","i","n","s","e","r","t","i","n","g"," ","'","q","'">>, <<"1","9","2","2","(","a",")">>, TRUE),
       CitationRow(<<"T","h","e"," ","t","e","r","m"," ","'","q","'"," ","m","e","a","n","s"," ","z","."," ">>, <<"5","0","1">>, TRUE) >>

InitRace ==
    /\ pc = "start"
    /\ text = <<>>
    /\ amendment = None
    /\ subsection = None
    /\ normalized = <<>>
    /\ applied = None
    /\ extraction = None
    /\ parsed = None
    /\ db = ParsedDocument(RaceCitations)
    /\ utcnow = 0
    /\ requests = [r \in {1, 2} |-> NoRequest]
    /\ response = [r \in {1, 2} |-> NoResponse]

SpecRace == InitRace /\ [][NextCompare]_vars

\* the comparisons of the document stored for the citation
ComparisonsOf(citation_id) == {row \in db.comparisons : row.citation_id = citation_id}

\* C30: in every state the document has at most one comparison for each of
\* its citations, however the compare requests of the clients interleave
\* and whatever their force_refresh.
C30_OneComparisonPerCitation ==
    \A citation_id \in DOMAIN db.citations : Cardinality(ComparisonsOf(citation_id)) <= 1

====
